---- MODULE Spec2Model ----
(***************************************************************************)
(* The 3-phase experiment agent of                                         *)
(* backend/src/services/github_agent_service_with_tools.py.                *)
(*                                                                         *)
(* Spec:      one run of implement_experiment_sync around                  *)
(*            GitHubAgentService.create_experiment_pr, with the write loop *)
(*            (_phase3_write), the batch commit (_flush_staged_writes),    *)
(*            the write tools (_execute_write_tool) and the finalisation / *)
(*            pull-request step.                                           *)
(* SpecRetry: one call of the retry wrapper _call_claude, attempt by       *)
(*            attempt.                                                     *)
(* SpecPlan:  one call of the planner _phase1_plan.                        *)
(* SpecAgent: the transcript of the write loop and of the tool-agent loop  *)
(*            of github_agent_service.py, with its history trim.           *)
(* SpecTree:  the tree cache (_get_tree) against the branches' heads.      *)
(* SpecRuns:  two runs started by the experiments route, interleaved.      *)
(* SpecBudget: the iterations of the write loop and the Claude calls they *)
(*            make, up to the end of the phase.                            *)
(* SpecRead:  one call of _phase2_read on the files selected from a plan.  *)
(* SpecCompact: the tool_result block built from one tool result           *)
(*            (_compact_result).                                           *)
(* SpecHash:  the preview hashes from implement_experiment_sync to the     *)
(*            hash mapping of the write prompt.                            *)
(* SpecRace:  the implementation thread against the activate and finish    *)
(*            routes on one experiment's status.                           *)
(* SpecStage: write_file calls and flushes, with what each call wrote.     *)
(*                                                                         *)
(* Strings are sequences of one-character strings, so that strip, lstrip,  *)
(* replace and split are computed as Python computes them.  A final text   *)
(* is a sequence of tokens: "{" and "}", "d" for the member                *)
(* "status":"done", "o" for "status":"other", "n" for a member             *)
(* "changed_files_count":<ModelCount>, "p" for a word of prose, " " and    *)
(* "\n" for white space.                                                   *)
(***************************************************************************)
EXTENDS Integers, Sequences, FiniteSets, TLC

VARIABLES
    pc,            \* position in create_experiment_pr / _phase3_write
    segs,          \* len(experiment_data["segments"])
    branch,        \* the working branch: "none" before create_git_ref, else "created"
    head,          \* head commit of the working branch: [id, parent, tree]
    cached_sha,    \* self._cached_tree_sha: commit id, or None
    staged,        \* self._staged_writes: path -> content
    turn,          \* number of iterations of `for turn in range(MAX_TURNS)` begun
    nblocks,       \* blocks of the current response processed so far
    tool_results,  \* whether tool_results of the current turn is non-empty
    text_chunks,   \* text_chunks of the current turn
    final_text,    \* final_text
    appended,      \* the user turn the current iteration appended to messages
    stop,          \* stop_reason of the response whose blocks were handled last
    last,          \* what the tool execution or flush of the latest step returned
    result,        \* what _phase3_write returned (the final payload), or None
    pulls,         \* number of pull requests opened by repo.create_pull
    error,         \* the exception create_experiment_pr ended with, or None
    status,        \* experiment.status
    pr_url,        \* experiment.pr_url
    \* one call of _call_claude, attempt by attempt
    outcomes,      \* what the successive messages.create calls do
    attempt_i,     \* `attempt` of `for attempt in range(self.max_agent_retries)`
    create_calls,  \* messages.create calls made so far
    sleeps,        \* time.sleep calls made so far
    call_state,    \* "idle", "trying", "sleeping", "returned" or "raised"
    raised_error,  \* the error that left the wrapper: [kind, at], or NoError
    \* one call of _phase1_plan
    tree_paths,    \* tree_paths: the entry-point hints the repository holds
    exp_name,      \* experiment_data["name"]
    response,      \* what the planning call gave: [kind, text], kind "none", "raised" or "text"
    plan,          \* what _phase1_plan returned, or NoPlan
    plan_state,    \* "idle", "planning" or "returned"
    \* the transcript of an agent loop
    agent,         \* "none", "phase3_write" or "run_claude_tool_agent"
    messages,      \* messages
    agent_turn,    \* iterations of the agent loop completed
    agent_state,   \* "idle", "looping" or "ended"
    \* the tree cache of one service instance
    cached_tree,   \* self._cached_tree: [valid, paths], valid = FALSE for None
    got_tree,      \* what the latest _get_tree returned: [branch, paths]
    \* two runs of create_experiment_pr in two threads, on one repository
    heap,          \* the dict objects allocated so far: heap[ref] is a dict
    svc,           \* per run, its GitHubAgentService: [staged_ref, cached_sha]
    run,           \* per run: [pc, name], name the branch name it computes
    refs,          \* the branches of the repository: name -> [owner, tree, committers]
    actor,         \* the run that took the latest step
    \* the context reader (phase 2)
    read_plan,     \* the plan: [files_to_read, integration_target]
    read_tree,     \* tree_paths, the cached tree of the default branch
    to_read,       \* files_to_read as create_experiment_pr builds it
    requested,     \* the paths passed to repo.get_contents, in order
    contents,      \* the keys of the dict _phase2_read returns
    read_state,    \* "idle", "planned", "reading", "returned" or "aborted"
    \* the compaction of a tool result
    tool_out,      \* the result _execute_write_tool returned, by its lengths
    block_content, \* the content of the tool_result block appended for it
    \* the preview hashes on their way into the write prompt
    exp_segments,  \* experiment.segments: a sequence of [id, name]
    stored_hashes, \* experiment.segment_preview_hashes: [present, map]
    experiment_json, \* what implement_experiment_sync passes on: [built, ...]
    hash_mapping,  \* hash_mapping_lines: [built, lines], a line by its fields
    \* the status of an experiment under the routes and the threads
    db_status,     \* the committed status column of the experiment
    impl_pc,       \* position of the implementation thread
    job_pc,        \* position of the analysis thread of finish_experiment
    route_calls,   \* calls of activate_experiment and finish_experiment so far
    race_actor,    \* who committed the status last: "route", "impl", "job"
    \* the write_file calls accepted since the last flush
    written,       \* path -> the contents written to it, in order
    flushed        \* the value of written that the last committing flush took

main_vars == <<pc, segs, branch, head, cached_sha, staged, turn, nblocks,
               tool_results, text_chunks, final_text, appended, stop, last, result, pulls, error,
               status, pr_url>>
sync_vars == <<status, pr_url>>
retry_vars == <<outcomes, attempt_i, create_calls, sleeps, call_state, raised_error>>
plan_vars == <<tree_paths, exp_name, response, plan, plan_state>>
agent_vars == <<agent, messages, agent_turn, agent_state>>
tree_vars == <<cached_tree, got_tree>>
runs_vars == <<heap, svc, run, refs, actor>>
read_vars == <<read_plan, read_tree, to_read, requested, contents, read_state>>
compact_vars == <<tool_out, block_content>>
hash_vars == <<exp_segments, stored_hashes, experiment_json, hash_mapping>>
race_vars == <<db_status, impl_pc, job_pc, route_calls, race_actor>>
stage_vars == <<written, flushed>>
late_vars == <<read_vars, compact_vars, hash_vars, race_vars, stage_vars>>
more_vars == <<tree_vars, runs_vars, late_vars>>

vars == <<main_vars, retry_vars, plan_vars, agent_vars, more_vars>>

(***************************************************************************)
(* Bounds of the model and constants of the program.                       *)
(***************************************************************************)
MaxBlocks == 2          \* content blocks in one response
MaxTextBlocks == 1      \* text blocks in one response
MaxSegments == 2        \* segments of the experiment definition
MAX_TURNS == 8
max_agent_retries == 5
ModelCount == 9         \* a changed_files_count the model reports by itself

None == "None"          \* Python's None, where the value is a string
NoSha == -1             \* Python's None, where the value is a commit id
NoCount == -1           \* a payload without a changed_files_count member
EmptyMap == [p \in {} |-> None]

(***************************************************************************)
(* Python string helpers.                                                  *)
(***************************************************************************)
WS == {" ", "\n"}

Range(s) == {s[i] : i \in 1..Len(s)}

RECURSIVE lstrip(_, _)
lstrip(s, cs) == IF s # <<>> /\ Head(s) \in cs THEN lstrip(Tail(s), cs) ELSE s

RECURSIVE rstrip(_, _)
rstrip(s, cs) ==
    IF s # <<>> /\ s[Len(s)] \in cs THEN rstrip(SubSeq(s, 1, Len(s) - 1), cs) ELSE s

strip(s) == rstrip(lstrip(s, WS), WS)

replace(s, x, y) == [i \in 1..Len(s) |-> IF s[i] = x THEN y ELSE s[i]]

RECURSIVE split(_, _)
split(s, sep) ==
    IF \A i \in 1..Len(s) : s[i] # sep
    THEN <<s>>
    ELSE LET i == CHOOSE k \in 1..Len(s) :
                      s[k] = sep /\ \A j \in 1..(k - 1) : s[j] # sep
         IN  <<SubSeq(s, 1, i - 1)>> \o split(SubSeq(s, i + 1, Len(s)), sep)

RECURSIVE join(_, _)
join(sep, chunks) ==
    IF chunks = <<>> THEN <<>>
    ELSE IF Len(chunks) = 1 THEN chunks[1]
    ELSE chunks[1] \o sep \o join(sep, Tail(chunks))

(***************************************************************************)
(* _is_safe_repo_path                                                      *)
(***************************************************************************)
\* Mutant: the segments are taken without replacing the backslashes first.
is_safe_without_replace(path) ==
    IF path = <<>> \/ Head(path) = "/" \/ Head(path) = "\\"
    THEN FALSE
    ELSE <<".", ".">> \notin Range(split(path, "/"))

is_safe_repo_path(path) ==
    IF path = <<>> \/ Head(path) = "/" \/ Head(path) = "\\"
    THEN FALSE
    ELSE <<".", ".">> \notin Range(split(replace(path, "\\", "/"), "/"))

(***************************************************************************)
(* _extract_json_from_response: re.search(r'\{[\s\S]*\}') takes the span   *)
(* from the first "{" to the last "}" after it; json.loads accepts it when *)
(* it is one flat object.  The payload is None or a record of the members  *)
(* read: status (None when absent) and count (NoCount when absent);        *)
(* valid = FALSE stands for Python's None, empty = TRUE for {}.            *)
(***************************************************************************)
Members == {"d", "o", "n"}
NoPayload == [valid |-> FALSE, status |-> None, count |-> NoCount, empty |-> FALSE]

json_loads(span) ==
    LET inner == SubSeq(span, 2, Len(span) - 1)
        toks  == SelectSeq(inner, LAMBDA t : t \notin WS)
        stats == SelectSeq(toks, LAMBDA t : t \in {"d", "o"})
    IN  IF \A i \in 1..Len(toks) : toks[i] \in Members
        THEN [valid  |-> TRUE,
              status |-> IF stats = <<>> THEN None
                         ELSE IF stats[Len(stats)] = "d" THEN "done" ELSE "other",
              count  |-> IF "n" \in Range(toks) THEN ModelCount ELSE NoCount,
              empty  |-> toks = <<>>]
        ELSE NoPayload

extract_json_from_response(text) ==
    LET opens  == {i \in 1..Len(text) : text[i] = "{"}
    IN  IF opens = {} THEN NoPayload
        ELSE LET i == CHOOSE k \in opens : \A m \in opens : k <= m
                 closes == {k \in (i + 1)..Len(text) : text[k] = "}"}
             IN  IF closes = {} THEN NoPayload
                 ELSE LET j == CHOOSE k \in closes : \A m \in closes : k >= m
                      IN  json_loads(SubSeq(text, i, j))

(***************************************************************************)
(* The repository: the base commit of the default branch and the trees.    *)
(***************************************************************************)
BaseTree == (<<"a">> :> "X")
BaseCommit == [id |-> 0, parent |-> NoSha, tree |-> BaseTree]

overlay(tree, st) ==
    [p \in (DOMAIN tree) \cup (DOMAIN st) |-> IF p \in DOMAIN st THEN st[p] ELSE tree[p]]

\* repo.compare(default_branch, branch_name).files
changed_files(hd) ==
    {p \in (DOMAIN hd.tree) \cup (DOMAIN BaseTree) :
        \/ p \notin DOMAIN BaseTree
        \/ p \notin DOMAIN hd.tree
        \/ hd.tree[p] # BaseTree[p]}


(***************************************************************************)
(* _flush_staged_writes.  The repository calls of a flush of n staged      *)
(* files, in order: 1 get_git_ref, 2 get_git_commit, 3..n+2 create_git_blob*)
(* (one per staged path), n+3 get_git_tree, n+4 create_git_tree,           *)
(* n+5 create_git_commit, n+6 branch_ref.edit.  failAt = 0: every call     *)
(* succeeds; failAt = k: call k raises (a call that raises changes nothing *)
(* in the repository).  The exception leaves the method before             *)
(* _staged_writes.clear().                                                 *)
(***************************************************************************)
FlushCalls(st) == Cardinality(DOMAIN st) + 6

FailPoints(st) == IF DOMAIN st = {} THEN {0} ELSE 0..FlushCalls(st)

\* Blobs created by a flush of n files whose call failAt raises.
BlobsBefore(n, failAt) ==
    IF failAt = 0 \/ failAt > n + 2 THEN n
    ELSE IF failAt <= 2 THEN 0
    ELSE failAt - 3

\* Mutant: create_git_tree without base_tree, so the new tree holds the staged
\* files only.
flush_without_base_tree(st, hd, cache, failAt) ==
    LET n == Cardinality(DOMAIN st) IN
    IF n = 0
    THEN [raised |-> FALSE, count |-> 0, calls |-> 0, blobs |-> 0,
          staged |-> st, head |-> hd, cache |-> cache]
    ELSE IF failAt # 0
    THEN [raised |-> TRUE, count |-> 0, calls |-> failAt,
          blobs |-> BlobsBefore(n, failAt),
          staged |-> st, head |-> hd, cache |-> cache]
    ELSE [raised |-> FALSE, count |-> n, calls |-> n + 6, blobs |-> n,
          staged |-> EmptyMap,
          head |-> [id |-> hd.id + 1, parent |-> hd.id, tree |-> st],
          cache |-> NoSha]

\* Mutant: the staged set is cleared before the repository calls are made.
flush_clearing_first(st, hd, cache, failAt) ==
    LET n == Cardinality(DOMAIN st) IN
    IF n = 0
    THEN [raised |-> FALSE, count |-> 0, calls |-> 0, blobs |-> 0,
          staged |-> st, head |-> hd, cache |-> cache]
    ELSE IF failAt # 0
    THEN [raised |-> TRUE, count |-> 0, calls |-> failAt,
          blobs |-> BlobsBefore(n, failAt),
          staged |-> EmptyMap, head |-> hd, cache |-> cache]
    ELSE [raised |-> FALSE, count |-> n, calls |-> n + 6, blobs |-> n,
          staged |-> EmptyMap,
          head |-> [id |-> hd.id + 1, parent |-> hd.id, tree |-> overlay(hd.tree, st)],
          cache |-> NoSha]

\* Mutant: the staged set is not cleared after the commit.
flush_keeping_staged(st, hd, cache, failAt) ==
    LET n == Cardinality(DOMAIN st) IN
    IF n = 0
    THEN [raised |-> FALSE, count |-> 0, calls |-> 0, blobs |-> 0,
          staged |-> st, head |-> hd, cache |-> cache]
    ELSE IF failAt # 0
    THEN [raised |-> TRUE, count |-> 0, calls |-> failAt,
          blobs |-> BlobsBefore(n, failAt),
          staged |-> st, head |-> hd, cache |-> cache]
    ELSE [raised |-> FALSE, count |-> n, calls |-> n + 6, blobs |-> n,
          staged |-> st,
          head |-> [id |-> hd.id + 1, parent |-> hd.id, tree |-> overlay(hd.tree, st)],
          cache |-> NoSha]

flush_staged_writes(st, hd, cache, failAt) ==
    LET n == Cardinality(DOMAIN st) IN
    IF n = 0
    THEN [raised |-> FALSE, count |-> 0, calls |-> 0, blobs |-> 0,
          staged |-> st, head |-> hd, cache |-> cache]
    ELSE IF failAt # 0
    THEN [raised |-> TRUE, count |-> 0, calls |-> failAt,
          blobs |-> BlobsBefore(n, failAt),
          staged |-> st, head |-> hd, cache |-> cache]
    ELSE [raised |-> FALSE, count |-> n, calls |-> n + 6, blobs |-> n,
          staged |-> EmptyMap,
          head |-> [id |-> hd.id + 1, parent |-> hd.id, tree |-> overlay(hd.tree, st)],
          cache |-> NoSha]

(***************************************************************************)
(* _execute_write_tool.  tool_input = [path, content]; env = [failAt, cmp] *)
(* is what the repository does: where the flush fails, whether             *)
(* repo.compare succeeds.  The result keeps ok, the count it reports       *)
(* (total_staged, committed_files or total_files) and whether a repository *)
(* call was made.                                                          *)
(***************************************************************************)
ToolResult(op, ok, ret, calls) ==
    [op |-> op, ok |-> ok, ret |-> ret, called |-> calls > 0]

normalize_path(raw) == lstrip(strip(raw), {"/"})

\* Mutant: a rejected write_file stages the file all the same.
execute_write_tool_staging_rejected(tool_name, tool_input, st, hd, cache, env) ==
    IF tool_name = "write_file"
    THEN LET path == normalize_path(tool_input.path)
             st2 == overlay(st, path :> tool_input.content)
         IN  [res |-> ToolResult(tool_name, is_safe_repo_path(path),
                                 Cardinality(DOMAIN st2), 0),
              staged |-> st2, head |-> hd, cache |-> cache]
    ELSE [res |-> ToolResult(tool_name, FALSE, 0, 0),
          staged |-> st, head |-> hd, cache |-> cache]

\* Mutant: write_file commits the file to the branch at once.
execute_write_tool_committing_writes(tool_name, tool_input, st, hd, cache, env) ==
    IF tool_name = "write_file" /\ is_safe_repo_path(normalize_path(tool_input.path))
    THEN LET path == normalize_path(tool_input.path) IN
         [res |-> ToolResult(tool_name, TRUE, Cardinality(DOMAIN st), 0),
          staged |-> st,
          head |-> [id |-> hd.id + 1, parent |-> hd.id,
                    tree |-> overlay(hd.tree, path :> tool_input.content)],
          cache |-> cache]
    ELSE [res |-> ToolResult(tool_name, FALSE, 0, 0),
          staged |-> st, head |-> hd, cache |-> cache]

\* Mutant: flush_writes does not see the writes staged before it.
execute_write_tool_flush_blind(tool_name, tool_input, st, hd, cache, env) ==
    IF tool_name = "write_file" /\ is_safe_repo_path(normalize_path(tool_input.path))
    THEN LET st2 == overlay(st, normalize_path(tool_input.path) :> tool_input.content) IN
         [res |-> ToolResult(tool_name, TRUE, Cardinality(DOMAIN st2), 0),
          staged |-> st2, head |-> hd, cache |-> cache]
    ELSE IF tool_name = "flush_writes"
    THEN [res |-> ToolResult(tool_name, TRUE, 0, 0),
          staged |-> st, head |-> hd, cache |-> cache]
    ELSE [res |-> ToolResult(tool_name, FALSE, 0, 0),
          staged |-> st, head |-> hd, cache |-> cache]

\* Mutant: a path that is already staged keeps the content of its first write.
execute_write_tool_keeping_first(tool_name, tool_input, st, hd, cache, env) ==
    IF tool_name = "write_file" /\ is_safe_repo_path(normalize_path(tool_input.path))
    THEN LET st2 == overlay(normalize_path(tool_input.path) :> tool_input.content, st) IN
         [res |-> ToolResult(tool_name, TRUE, Cardinality(DOMAIN st2), 0),
          staged |-> st2, head |-> hd, cache |-> cache]
    ELSE IF tool_name = "flush_writes"
    THEN LET f == flush_staged_writes(st, hd, cache, env.failAt) IN
         [res |-> ToolResult(tool_name, ~f.raised, f.count, f.calls),
          staged |-> f.staged, head |-> f.head, cache |-> f.cache]
    ELSE [res |-> ToolResult(tool_name, FALSE, 0, 0),
          staged |-> st, head |-> hd, cache |-> cache]

execute_write_tool(tool_name, tool_input, st, hd, cache, env) ==
    IF tool_name = "write_file"
    THEN LET path == normalize_path(tool_input.path) IN
         IF ~is_safe_repo_path(path)
         THEN [res |-> ToolResult(tool_name, FALSE, 0, 0),
               staged |-> st, head |-> hd, cache |-> cache]
         ELSE LET st2 == overlay(st, path :> tool_input.content) IN
              [res |-> ToolResult(tool_name, TRUE, Cardinality(DOMAIN st2), 0),
               staged |-> st2, head |-> hd, cache |-> cache]
    ELSE IF tool_name = "flush_writes"
    THEN LET f == flush_staged_writes(st, hd, cache, env.failAt) IN
         [res |-> ToolResult(tool_name, ~f.raised, f.count, f.calls),
          staged |-> f.staged, head |-> f.head, cache |-> f.cache]
    ELSE IF tool_name = "compare_changes"
    THEN [res |-> ToolResult(tool_name, env.cmp,
                             IF env.cmp THEN Cardinality(changed_files(hd)) ELSE 0,
                             1),
          staged |-> st, head |-> hd, cache |-> cache]
    ELSE [res |-> ToolResult(tool_name, FALSE, 0, 0),
          staged |-> st, head |-> hd, cache |-> cache]

(***************************************************************************)
(* _call_claude: outs[k] is what attempt k of messages.create does:        *)
(* "ok", "retryable" (an error _is_retryable_error accepts) or "fatal".    *)
(***************************************************************************)
Outcomes == {"ok", "retryable", "fatal"}

RECURSIVE call_claude_from(_, _)
call_claude_from(outs, attempt) ==
    IF outs[attempt + 1] = "ok"
    THEN [raised |-> FALSE, attempts |-> attempt + 1, error |-> None]
    ELSE IF outs[attempt + 1] # "retryable" \/ attempt = max_agent_retries - 1
    THEN [raised |-> TRUE, attempts |-> attempt + 1, error |-> outs[attempt + 1]]
    ELSE call_claude_from(outs, attempt + 1)

call_claude(outs) == call_claude_from(outs, 0)

\* What the attempts of one _call_claude may do: the attempts before the one
\* that decides fail with a retryable error (the later ones are never made).
AttemptSeqs ==
    {outs \in [1..max_agent_retries -> Outcomes] :
        \E k \in 1..max_agent_retries :
            /\ \A i \in 1..(k - 1) : outs[i] = "retryable"
            /\ \A i \in (k + 1)..max_agent_retries : outs[i] = "ok"}

(***************************************************************************)
(* create_experiment_pr: min_files                                         *)
(***************************************************************************)
Max(a, b) == IF a >= b THEN a ELSE b
Min(a, b) == IF a <= b THEN a ELSE b

\* Mutant: a floor of 1 instead of 2.
min_files_floor_one(num_segments) == Max(1, Min(6, num_segments + 1))

min_files(num_segments) == Max(2, Min(6, num_segments + 1))


(***************************************************************************)
(* _phase3_write, lines 529-557: parse the final payload, compare the      *)
(* branches, apply the threshold, fill in the defaults.  cmp: whether      *)
(* repo.compare succeeds.                                                  *)
(***************************************************************************)
NoInput == [path |-> <<>>, content |-> ""]
NoEnv == [failAt |-> 0, cmp |-> TRUE]

NoResult == [status |-> "none", source |-> "none", changed_files_count |-> 0]

\* Mutant: a missing or invalid final payload fails the run.
finalize_requiring_payload(text, hd, min_changed_files, cmp) ==
    LET final_payload == IF text # <<>> THEN extract_json_from_response(text)
                         ELSE NoPayload
        comparison    == execute_write_tool("compare_changes", NoInput, EmptyMap, hd,
                                            NoSha, [failAt |-> 0, cmp |-> cmp]).res
        total_changed == IF comparison.ok THEN comparison.ret ELSE 0
        use_default   == \/ ~final_payload.valid
                         \/ final_payload.empty
                         \/ final_payload.status # "done"
    IN  IF total_changed < min_changed_files \/ use_default
        THEN [raised |-> TRUE, payload |-> NoResult, total |-> total_changed]
        ELSE [raised |-> FALSE,
              payload |-> [status |-> "done",
                           source |-> IF use_default THEN "default" ELSE "model",
                           changed_files_count |-> total_changed],
              total |-> total_changed]

\* Mutant: a changed_files_count of the model's payload is kept.
finalize_trusting_model(text, hd, min_changed_files, cmp) ==
    LET final_payload == IF text # <<>> THEN extract_json_from_response(text)
                         ELSE NoPayload
        comparison    == execute_write_tool("compare_changes", NoInput, EmptyMap, hd,
                                            NoSha, [failAt |-> 0, cmp |-> cmp]).res
        total_changed == IF comparison.ok THEN comparison.ret ELSE 0
        use_default   == \/ ~final_payload.valid
                         \/ final_payload.empty
                         \/ final_payload.status # "done"
    IN  IF total_changed < min_changed_files
        THEN [raised |-> TRUE, payload |-> NoResult, total |-> total_changed]
        ELSE [raised |-> FALSE,
              payload |-> [status |-> "done",
                           source |-> IF use_default THEN "default" ELSE "model",
                           changed_files_count |-> IF ~use_default /\ final_payload.count # NoCount
                                                  THEN final_payload.count ELSE total_changed],
              total |-> total_changed]

phase3_finalize(text, hd, min_changed_files, cmp) ==
    LET final_payload == IF text # <<>> THEN extract_json_from_response(text)
                         ELSE NoPayload
        comparison    == execute_write_tool("compare_changes", NoInput, EmptyMap, hd,
                                            NoSha, [failAt |-> 0, cmp |-> cmp]).res
        total_changed == IF comparison.ok THEN comparison.ret ELSE 0
        use_default   == \/ ~final_payload.valid
                         \/ final_payload.empty
                         \/ final_payload.status # "done"
    IN  IF total_changed < min_changed_files
        THEN [raised |-> TRUE, payload |-> NoResult, total |-> total_changed]
        ELSE [raised |-> FALSE,
              payload |-> [status |-> "done",
                           source |-> IF use_default THEN "default" ELSE "model",
                           changed_files_count |-> total_changed],
              total |-> total_changed]

(***************************************************************************)
(* What the model and the environment may supply.                          *)
(***************************************************************************)
PathInputs ==
    { <<"a">>, <<"b">>,
      <<"/", "a">>, <<" ", "b", " ">>,
      <<>>, <<"/">>,
      <<"\\", "a">>,
      <<".", ".", "/", "a">>, <<"/", ".", ".", "/", "a">>,
      <<"b", "\\", ".", ".">> }

Contents == {"X", "Y"}

TextInputs ==
    { <<>>, <<"p">>, <<"{", "d", "n", "}">>, <<"{", "o", "}">>, <<"{", "d">> }


StopReasons == {"end_turn", "max_tokens"}
NoStop == ""

NoLast == ToolResult("none", TRUE, 0, 0)

\* Mutant: the turn appended after an auto-flush does not report how many
\* files were flushed.
UserTurn_without_count(kind, count) == [kind |-> kind, count |-> 0]

\* The user turns the write loop appends after the blocks of a response
\* (_phase3_write, lines 502-503 and 512-518): the tool results, or one of the
\* two nudges, "Auto-flushed {count} files. Output final JSON now." and
\* "Output final JSON now.".
UserTurn(kind, count) == [kind |-> kind, count |-> count]
NoTurn == UserTurn("none", 0)

NoError == [kind |-> "none", at |-> 0]
NoResponse == [kind |-> "none", text |-> <<>>]
NoPlan == [source |-> "none", integration_target |-> None, new_files |-> <<>>]

\* The parts of the state a specification does not exercise stay as they are here.
RetryIdle ==
    /\ outcomes = <<>>
    /\ attempt_i = 0
    /\ create_calls = 0
    /\ sleeps = 0
    /\ call_state = "idle"
    /\ raised_error = NoError

PlanIdle ==
    /\ tree_paths = {}
    /\ exp_name = <<>>
    /\ response = NoResponse
    /\ plan = NoPlan
    /\ plan_state = "idle"

AgentIdle ==
    /\ agent = "none"
    /\ messages = <<>>
    /\ agent_turn = 0
    /\ agent_state = "idle"

NoTree == [valid |-> FALSE, paths |-> {}]
NoGot == [branch |-> "none", paths |-> {}]

TreeIdle ==
    /\ cached_tree = NoTree
    /\ got_tree = NoGot

NoRef == 0
Runs == {1, 2}

RunsIdle ==
    /\ heap = <<>>
    /\ svc = [r \in Runs |-> [staged_ref |-> NoRef, cached_sha |-> NoSha]]
    /\ run = [r \in Runs |-> [pc |-> "idle", name |-> "none"]]
    /\ refs = [n \in {} |-> None]
    /\ actor = 0

\* The context reader at rest.
NoReadPlan == [files_to_read |-> <<>>, integration_target |-> None]

ReadIdle ==
    /\ read_plan = NoReadPlan
    /\ read_tree = {}
    /\ to_read = <<>>
    /\ requested = <<>>
    /\ contents = {}
    /\ read_state = "idle"

\* No tool result yet, and no block appended for one.
NoOut == [tool |-> "none", ok |-> FALSE, fixed |-> 0, nfiles |-> 0, file_len |-> 0,
          escapes |-> 0]
NoBlock == [truncated |-> FALSE, len |-> 0, appended |-> FALSE]

CompactIdle ==
    /\ tool_out = NoOut
    /\ block_content = NoBlock

\* experiment.segment_preview_hashes is NULL; nothing built yet.
NoHashes == [present |-> FALSE, map |-> EmptyMap]
NoJson == [built |-> FALSE, segment_preview_hashes |-> EmptyMap, segments |-> <<>>]
NoMapping == [built |-> FALSE, lines |-> <<>>]

HashIdle ==
    /\ exp_segments = <<>>
    /\ stored_hashes = NoHashes
    /\ experiment_json = NoJson
    /\ hash_mapping = NoMapping

RaceIdle ==
    /\ db_status = "none"
    /\ impl_pc = "idle"
    /\ job_pc = "idle"
    /\ route_calls = 0
    /\ race_actor = "none"

StageIdle == written = EmptyMap /\ flushed = EmptyMap

LateIdle == ReadIdle /\ CompactIdle /\ HashIdle /\ RaceIdle /\ StageIdle

MoreIdle == TreeIdle /\ RunsIdle /\ LateIdle

aux_vars == <<retry_vars, plan_vars, agent_vars, more_vars>>

InitRun ==
    /\ pc = "sync"
    /\ status = "started"
    /\ pr_url = None
    /\ segs \in 0..MaxSegments
    /\ branch = "none"
    /\ head = BaseCommit
    /\ cached_sha = NoSha
    /\ staged = EmptyMap
    /\ turn = 0
    /\ nblocks = 0
    /\ tool_results = FALSE
    /\ text_chunks = <<>>
    /\ final_text = <<>>
    /\ appended = NoTurn
    /\ stop = NoStop
    /\ last = NoLast
    /\ result = NoResult
    /\ pulls = 0
    /\ error = None

Init == InitRun /\ RetryIdle /\ PlanIdle /\ AgentIdle /\ MoreIdle

\* create_experiment_pr, lines 570-584: the working branch is created from
\* the head of the default branch; create_git_ref may raise.
create_branch(ok) ==
    /\ pc = "start"
    /\ IF ok
       THEN /\ branch' = "created"
            /\ head' = BaseCommit
            /\ pc' = "plan"
            /\ error' = error
       ELSE /\ pc' = "failed"
            /\ error' = "create_git_ref"
            /\ UNCHANGED <<branch, head>>
    /\ UNCHANGED <<segs, cached_sha, staged, turn, nblocks, tool_results,
                   text_chunks, final_text, appended, stop, last, result, pulls>>
    /\ UNCHANGED aux_vars
    /\ UNCHANGED sync_vars

\* create_experiment_pr, line 591: _get_tree(repo, default_branch) fills the cache.
get_tree_default ==
    /\ pc = "plan"
    /\ cached_sha' = BaseCommit.id
    /\ pc' = "phase3"
    /\ UNCHANGED <<segs, branch, head, staged, turn, nblocks, tool_results,
                   text_chunks, final_text, appended, stop, last, result, pulls, error>>
    /\ UNCHANGED aux_vars
    /\ UNCHANGED sync_vars

\* create_experiment_pr, lines 679-680, and _phase3_write, lines 445-447.
begin_phase3 ==
    /\ pc = "phase3"
    /\ staged' = EmptyMap
    /\ cached_sha' = NoSha
    /\ final_text' = <<>>
    /\ turn' = 0
    /\ pc' = "call"
    /\ UNCHANGED <<appended, stop>>
    /\ UNCHANGED <<segs, branch, head, nblocks, tool_results,
                   text_chunks, last, result, pulls, error>>
    /\ UNCHANGED aux_vars
    /\ UNCHANGED sync_vars

\* Mutant: one iteration too many.
LoopNextOffByOne(t) == IF t <= MAX_TURNS THEN "call" ELSE "exit"

\* `for turn in range(MAX_TURNS)`: where a `continue` leads after t iterations.
LoopNext(t) == IF t < MAX_TURNS THEN "call" ELSE "exit"

\* Mutant: no request forces a tool call.
tool_choice_never(t) == None

\* _phase3_write, line 455: tc = {"type": "any"} if turn == 0 else None, for
\* the 0-based loop index t.
tool_choice(t) == IF t = 0 THEN "any" ELSE None

\* _phase3_write, lines 453-464: one iteration begins with _call_claude.
request(outs) ==
    /\ pc = "call"
    /\ LET r == call_claude(outs) IN
       /\ turn' = turn + 1
       /\ IF r.raised
          THEN /\ pc' = "failed"
               /\ error' = "claude"
               /\ UNCHANGED <<nblocks, tool_results, text_chunks>>
          ELSE /\ pc' = "blocks"
               /\ nblocks' = 0
               /\ tool_results' = FALSE
               /\ text_chunks' = <<>>
               /\ error' = error
    /\ last' = NoLast
    /\ appended' = NoTurn
    /\ stop' = NoStop
    /\ UNCHANGED <<segs, branch, head, cached_sha, staged, final_text, result, pulls>>
    /\ UNCHANGED aux_vars
    /\ UNCHANGED sync_vars

\* _phase3_write, lines 467-471: a text block.  The response to a request
\* that forces a tool call (tool_choice any) holds tool_use blocks only; turn
\* counts the requests made, so the loop index of the response is turn - 1.
\* text_chunks is read (line 507) only in a turn without tool results, so the
\* chunks of a turn that has one are not kept.
dispatch_text(t) ==
    /\ pc = "blocks"
    /\ nblocks < MaxBlocks
    /\ tool_choice(turn - 1) # "any"
    /\ Len(text_chunks) < MaxTextBlocks
    /\ text_chunks' = IF tool_results THEN <<>> ELSE Append(text_chunks, t)
    /\ nblocks' = nblocks + 1
    /\ last' = NoLast
    /\ UNCHANGED <<pc, segs, branch, head, cached_sha, staged, turn,
                   tool_results, final_text, appended, stop, result, pulls, error>>
    /\ UNCHANGED aux_vars
    /\ UNCHANGED sync_vars

\* _phase3_write, lines 473-497: a tool_use block is executed at once.
dispatch_tool(name, input, env) ==
    /\ pc = "blocks"
    /\ nblocks < MaxBlocks
    /\ LET r == execute_write_tool(name, input, staged, head, cached_sha, env) IN
       /\ staged' = r.staged
       /\ head' = r.head
       /\ cached_sha' = r.cache
       /\ last' = r.res
    /\ tool_results' = TRUE
    /\ nblocks' = nblocks + 1
    /\ text_chunks' = <<>>
    /\ UNCHANGED <<pc, segs, branch, turn, final_text, appended, stop, result, pulls, error>>
    /\ UNCHANGED aux_vars
    /\ UNCHANGED sync_vars

\* _phase3_write, lines 499-520: after the last block of the response.
end_response(stop_reason, failAt) ==
    /\ pc = "blocks"
    /\ tool_choice(turn - 1) = "any" => tool_results
    /\ stop' = stop_reason
    /\ IF tool_results
       THEN /\ pc' = LoopNext(turn)
            /\ last' = NoLast
            /\ appended' = UserTurn("tool_results", 0)
            /\ UNCHANGED <<final_text, staged, head, cached_sha, error>>
       ELSE LET text == strip(join(<<"\n">>, text_chunks)) IN
            /\ final_text' = text
            /\ IF text # <<>>
               THEN /\ pc' = "exit"
                    /\ last' = NoLast
                    /\ UNCHANGED <<appended, staged, head, cached_sha, error>>
               ELSE IF stop_reason = "end_turn"
               THEN IF DOMAIN staged # {}
                    THEN LET f == flush_staged_writes(staged, head, cached_sha, failAt) IN
                         /\ staged' = f.staged
                         /\ head' = f.head
                         /\ cached_sha' = f.cache
                         /\ last' = ToolResult("flush_writes", ~f.raised, f.count, f.calls)
                         /\ pc' = IF f.raised THEN "failed" ELSE LoopNext(turn)
                         /\ error' = IF f.raised THEN "flush" ELSE error
                         /\ appended' = IF f.raised THEN appended
                                        ELSE UserTurn("auto_flushed", f.count)
                    ELSE /\ pc' = LoopNext(turn)
                         /\ last' = NoLast
                         /\ appended' = UserTurn("final_json", 0)
                         /\ UNCHANGED <<staged, head, cached_sha, error>>
               ELSE /\ pc' = "exit"
                    /\ last' = NoLast
                    /\ UNCHANGED <<appended, staged, head, cached_sha, error>>
    /\ UNCHANGED <<segs, branch, turn, nblocks, tool_results, text_chunks,
                   result, pulls>>
    /\ UNCHANGED aux_vars
    /\ UNCHANGED sync_vars

\* Mutant: the loop's exit goes on to the final payload without a flush.
safety_flush_skipped(failAt) ==
    /\ pc = "exit"
    /\ pc' = "finalize"
    /\ last' = NoLast
    /\ UNCHANGED <<segs, branch, head, cached_sha, staged, turn, nblocks, tool_results,
                   text_chunks, final_text, appended, stop, result, pulls, error>>
    /\ UNCHANGED aux_vars
    /\ UNCHANGED sync_vars

\* _phase3_write, lines 522-527: the safety flush.
safety_flush(failAt) ==
    /\ pc = "exit"
    /\ IF DOMAIN staged # {}
       THEN LET f == flush_staged_writes(staged, head, cached_sha, failAt) IN
            /\ staged' = f.staged
            /\ head' = f.head
            /\ cached_sha' = f.cache
            /\ last' = ToolResult("flush_writes", ~f.raised, f.count, f.calls)
            /\ pc' = IF f.raised THEN "failed" ELSE "finalize"
            /\ error' = IF f.raised THEN "flush" ELSE error
       ELSE /\ pc' = "finalize"
            /\ last' = NoLast
            /\ UNCHANGED <<staged, head, cached_sha, error>>
    /\ UNCHANGED <<segs, branch, turn, nblocks, tool_results, text_chunks,
                   final_text, appended, stop, result, pulls>>
    /\ UNCHANGED aux_vars
    /\ UNCHANGED sync_vars

\* _phase3_write, lines 529-557.
finalize(cmp) ==
    /\ pc = "finalize"
    /\ LET r == phase3_finalize(final_text, head, min_files(segs), cmp) IN
       /\ last' = ToolResult("compare_changes", cmp, r.total, 1)
       /\ IF r.raised
          THEN /\ pc' = "failed"
               /\ error' = "too_few_files"
               /\ result' = result
          ELSE /\ pc' = "pr"
               /\ error' = error
               /\ result' = r.payload
    /\ UNCHANGED <<segs, branch, head, cached_sha, staged, turn, nblocks,
                   tool_results, text_chunks, final_text, appended, stop, pulls>>
    /\ UNCHANGED aux_vars
    /\ UNCHANGED sync_vars

\* create_experiment_pr, lines 692-710: repo.create_pull.
create_pull(ok) ==
    /\ pc = "pr"
    /\ IF ok
       THEN /\ pulls' = pulls + 1
            /\ pc' = "done"
            /\ error' = error
       ELSE /\ pc' = "failed"
            /\ error' = "create_pull"
            /\ pulls' = pulls
    /\ last' = NoLast
    /\ UNCHANGED <<segs, branch, head, cached_sha, staged, turn, nblocks,
                   tool_results, text_chunks, final_text, appended, stop, result>>
    /\ UNCHANGED aux_vars
    /\ UNCHANGED sync_vars

\* implement_experiment_sync, lines 73-86: the experiment and its project
\* are looked up; the status becomes "implementing".
sync_begin(found_experiment, found_project) ==
    /\ pc = "sync"
    /\ IF ~found_experiment
       THEN /\ pc' = "returned"
            /\ UNCHANGED status
       ELSE IF ~found_project
       THEN /\ pc' = "returned"
            /\ status' = "failed"
       ELSE /\ pc' = "events"
            /\ status' = "implementing"
    /\ UNCHANGED <<segs, branch, head, cached_sha, staged, turn, nblocks, tool_results,
                   text_chunks, final_text, appended, stop, last, result, pulls, error, pr_url>>
    /\ UNCHANGED aux_vars

\* implement_experiment_sync, lines 88-131: the preview hashes and the events
\* extraction, which may raise.
extract_events(ok) ==
    /\ pc = "events"
    /\ IF ok
       THEN /\ pc' = "start"
            /\ UNCHANGED error
       ELSE /\ pc' = "failed"
            /\ error' = "events"
    /\ UNCHANGED <<segs, branch, head, cached_sha, staged, turn, nblocks, tool_results,
                   text_chunks, final_text, appended, stop, last, result, pulls, status, pr_url>>
    /\ UNCHANGED aux_vars

\* implement_experiment_sync, lines 139-151: create_experiment_pr returned.
sync_store_pr ==
    /\ pc = "done"
    /\ pr_url' = "pr.html_url"
    /\ status' = "pr_created"
    /\ pc' = "returned"
    /\ UNCHANGED <<segs, branch, head, cached_sha, staged, turn, nblocks, tool_results,
                   text_chunks, final_text, appended, stop, last, result, pulls, error>>
    /\ UNCHANGED aux_vars

\* Mutant: the handler only logs the exception.
sync_except_logs_only ==
    /\ pc = "failed"
    /\ pc' = "returned"
    /\ UNCHANGED <<segs, branch, head, cached_sha, staged, turn, nblocks, tool_results,
                   text_chunks, final_text, appended, stop, last, result, pulls, error, status, pr_url>>
    /\ UNCHANGED aux_vars

\* implement_experiment_sync, lines 153-161: the except handler.
sync_except ==
    /\ pc = "failed"
    /\ status' = "failed"
    /\ pc' = "returned"
    /\ UNCHANGED <<segs, branch, head, cached_sha, staged, turn, nblocks, tool_results,
                   text_chunks, final_text, appended, stop, last, result, pulls, error, pr_url>>
    /\ UNCHANGED aux_vars

Next ==
    \/ \E found_experiment, found_project \in BOOLEAN :
          sync_begin(found_experiment, found_project)
    \/ \E ok \in BOOLEAN : extract_events(ok)
    \/ sync_store_pr
    \/ sync_except
    \/ \E ok \in BOOLEAN : create_branch(ok)
    \/ get_tree_default
    \/ begin_phase3
    \/ \E outs \in AttemptSeqs : request(outs)
    \/ \E t \in TextInputs : dispatch_text(t)
    \/ \E path \in PathInputs, content \in Contents :
          dispatch_tool("write_file", [path |-> path, content |-> content], NoEnv)
    \/ \E failAt \in FailPoints(staged) :
          dispatch_tool("flush_writes", NoInput, [failAt |-> failAt, cmp |-> TRUE])
    \/ \E cmp \in BOOLEAN :
          dispatch_tool("compare_changes", NoInput, [failAt |-> 0, cmp |-> cmp])
    \/ dispatch_tool("list_files", NoInput, NoEnv)
    \/ \E sr \in StopReasons, failAt \in FailPoints(staged) : end_response(sr, failAt)
    \/ \E failAt \in FailPoints(staged) : safety_flush(failAt)
    \/ \E cmp \in BOOLEAN : finalize(cmp)
    \/ \E ok \in BOOLEAN : create_pull(ok)

Spec == Init /\ [][Next]_vars

(***************************************************************************)
(* _call_claude, attempt by attempt.  The completion service is given by   *)
(* `outcomes`: outcomes[k] is what the k-th messages.create does.  An      *)
(* error is identified by its kind and the attempt that raised it.         *)
(***************************************************************************)
\* Mutant: every error is taken as retryable.
retry_any_error(kind) == TRUE

\* _is_retryable_error: the kind "retryable" stands for the errors whose text
\* holds one of the markers (429, rate limit, 5xx, timeout, connection).
is_retryable_error(kind) == kind = "retryable"

\* Mutant: the last attempt is not recognised.
is_last_attempt_never(a) == FALSE

\* `attempt == self.max_agent_retries - 1`
is_last_attempt(a) == a = max_agent_retries - 1

InitRetry ==
    /\ InitRun
    /\ segs = 0
    /\ outcomes \in [1..max_agent_retries -> Outcomes]
    /\ attempt_i = 0
    /\ create_calls = 0
    /\ sleeps = 0
    /\ call_state = "trying"
    /\ raised_error = NoError
    /\ PlanIdle
    /\ AgentIdle
    /\ MoreIdle

\* One iteration of the for loop up to the return, the raise or the sleep
\* (lines 304-320); after the loop, line 324.
attempt_call ==
    /\ call_state = "trying"
    /\ IF attempt_i >= max_agent_retries
       THEN /\ call_state' = "raised"
            /\ raised_error' = [kind |-> "exhausted", at |-> 0]
            /\ UNCHANGED create_calls
       ELSE LET out == outcomes[attempt_i + 1] IN
            /\ create_calls' = create_calls + 1
            /\ IF out = "ok"
               THEN /\ call_state' = "returned"
                    /\ UNCHANGED raised_error
               ELSE IF ~is_retryable_error(out) \/ is_last_attempt(attempt_i)
               THEN /\ call_state' = "raised"
                    /\ raised_error' = [kind |-> out, at |-> attempt_i + 1]
               ELSE /\ call_state' = "sleeping"
                    /\ UNCHANGED raised_error
    /\ UNCHANGED <<outcomes, attempt_i, sleeps>>
    /\ UNCHANGED <<main_vars, plan_vars, agent_vars, more_vars>>

\* Lines 321-323: the backoff sleep, then the next iteration.
backoff_sleep ==
    /\ call_state = "sleeping"
    /\ sleeps' = sleeps + 1
    /\ attempt_i' = attempt_i + 1
    /\ call_state' = "trying"
    /\ UNCHANGED <<outcomes, create_calls, raised_error>>
    /\ UNCHANGED <<main_vars, plan_vars, agent_vars, more_vars>>

NextRetry == attempt_call \/ backoff_sleep

SpecRetry == InitRetry /\ [][NextRetry]_vars

(***************************************************************************)
(* _phase1_plan.  The text of the planning response is a sequence of       *)
(* tokens: "{" and "}", "p" for prose, and the members "N3" (new_files, a  *)
(* list of three paths), "N0" (new_files: []), "Ns" (new_files, a string), *)
(* "T" (integration_target, a path), "Tn" (integration_target: null) and   *)
(* "Te" (integration_target: "").  A path under src/experiments/ is the    *)
(* record [dir, file].                                                     *)
(***************************************************************************)
SlugChars == {"a", "b", "-"}
MaxSlug == 50

\* str.lower on the letters the names use.
lower(c) == IF c = "A" THEN "a" ELSE IF c = "B" THEN "b" ELSE c

\* re.sub(r"-+", "-", s)
RECURSIVE collapse_hyphens(_)
collapse_hyphens(s) ==
    IF Len(s) < 2 THEN s
    ELSE IF s[1] = "-" /\ s[2] = "-" THEN collapse_hyphens(Tail(s))
    ELSE <<s[1]>> \o collapse_hyphens(Tail(s))

\* Lines 342-343.
exp_slug(name) ==
    LET lowered == [i \in 1..Len(name) |-> lower(name[i])]
        subbed  == [i \in 1..Len(name) |->
                       IF lowered[i] \in SlugChars THEN lowered[i] ELSE "-"]
        trimmed == rstrip(lstrip(collapse_hyphens(subbed), {"-"}), {"-"})
    IN  SubSeq(trimmed, 1, Min(MaxSlug, Len(trimmed)))

EntryHints == <<"app/page.tsx", "src/App.tsx", "pages/index.tsx", "src/main.tsx">>

\* Lines 389-398: the fallback plan.
fallback_plan(paths, slug) ==
    LET found == {i \in 1..Len(EntryHints) : EntryHints[i] \in paths}
        entry == IF found = {} THEN None
                 ELSE EntryHints[CHOOSE i \in found : \A j \in found : i <= j]
    IN  [source |-> "fallback",
         integration_target |-> entry,
         new_files |-> << [dir |-> slug, file |-> "Controller.tsx"],
                          [dir |-> slug, file |-> "Control.tsx"],
                          [dir |-> slug, file |-> "VariantB.tsx"] >>]

PlanMembers == {"N3", "N0", "Ns", "T", "Tn", "Te"}
ModelDir == <<"m">>
ModelNewFiles ==
    << [dir |-> ModelDir, file |-> "Controller.tsx"],
       [dir |-> ModelDir, file |-> "A.tsx"],
       [dir |-> ModelDir, file |-> "B.tsx"] >>

\* json.loads on the span of a planning response: None (valid = FALSE) or
\* the members read; the last occurrence of a member wins.
plan_json_loads(span) ==
    LET inner == SubSeq(span, 2, Len(span) - 1)
        toks  == SelectSeq(inner, LAMBDA t : t \notin WS)
        ns    == SelectSeq(toks, LAMBDA t : t \in {"N3", "N0", "Ns"})
        ts    == SelectSeq(toks, LAMBDA t : t \in {"T", "Tn", "Te"})
    IN  IF \A i \in 1..Len(toks) : toks[i] \in PlanMembers
        THEN [valid |-> TRUE,
              empty |-> toks = <<>>,
              new_files |-> IF ns = <<>> THEN "absent" ELSE ns[Len(ns)],
              integration_target |-> IF ts = <<>> THEN "absent" ELSE ts[Len(ts)]]
        ELSE [valid |-> FALSE, empty |-> FALSE,
              new_files |-> "absent", integration_target |-> "absent"]

\* _extract_json_from_response on a planning response.
extract_plan_from_response(text) ==
    LET opens  == {i \in 1..Len(text) : text[i] = "{"}
    IN  IF opens = {} THEN plan_json_loads(<<>>)
        ELSE LET i == CHOOSE k \in opens : \A m \in opens : k <= m
                 closes == {k \in (i + 1)..Len(text) : text[k] = "}"}
             IN  IF closes = {} THEN plan_json_loads(<<>>)
                 ELSE LET j == CHOOSE k \in closes : \A m \in closes : k >= m
                      IN  plan_json_loads(SubSeq(text, i, j))

\* Line 380: plan and isinstance(plan.get("new_files"), list)
\*           and plan.get("integration_target")
plan_accepted(parsed) ==
    /\ parsed.valid
    /\ ~parsed.empty
    /\ parsed.new_files \in {"N3", "N0"}
    /\ parsed.integration_target = "T"

\* Mutant: an exception of the planning call is not caught.
phase1_plan_uncaught(resp, paths, name) ==
    IF resp.kind = "raised"
    THEN [raised |-> TRUE, plan |-> NoPlan]
    ELSE [raised |-> FALSE, plan |-> fallback_plan(paths, exp_slug(name))]

\* Lines 371-398.
phase1_plan(resp, paths, name) ==
    IF resp.kind = "raised"
    THEN [raised |-> FALSE, plan |-> fallback_plan(paths, exp_slug(name))]
    ELSE LET parsed == extract_plan_from_response(resp.text) IN
         IF plan_accepted(parsed)
         THEN [raised |-> FALSE,
               plan |-> [source |-> "model",
                         integration_target |-> EntryHints[1],
                         new_files |-> IF parsed.new_files = "N3"
                                       THEN ModelNewFiles ELSE <<>>]]
         ELSE [raised |-> FALSE, plan |-> fallback_plan(paths, exp_slug(name))]

ExpNames ==
    { <<"a">>, <<"A", " ", "b">>, <<" ", "a", "!", "!", "B", "-">>, <<"!">> }

TreePathSets == SUBSET {EntryHints[i] : i \in 1..Len(EntryHints)}

PlanTexts ==
    { <<>>, <<"p">>,
      <<"{", "N3", "T", "}">>, <<"p", "{", "N3", "T", "}", "p">>,
      <<"{", "N0", "T", "}">>, <<"{", "N3", "}">>, <<"{", "T", "}">>,
      <<"{", "N3", "Tn", "}">>, <<"{", "N3", "Te", "}">>,
      <<"{", "Ns", "T", "}">>, <<"{", "N3", "T">>, <<"{", "}">> }

InitPlan ==
    /\ InitRun
    /\ segs = 0
    /\ outcomes \in AttemptSeqs
    /\ attempt_i = 0
    /\ create_calls = 0
    /\ sleeps = 0
    /\ call_state = "idle"
    /\ raised_error = NoError
    /\ tree_paths \in TreePathSets
    /\ exp_name \in ExpNames
    /\ response = NoResponse
    /\ plan = NoPlan
    /\ plan_state = "planning"
    /\ AgentIdle
    /\ MoreIdle

\* Lines 372-377: the planning call is one messages.create, made directly.
plan_call(text) ==
    /\ plan_state = "planning"
    /\ create_calls' = create_calls + 1
    /\ response' = IF outcomes[create_calls + 1] = "ok"
                   THEN [kind |-> "text", text |-> text]
                   ELSE [kind |-> "raised", text |-> <<>>]
    /\ plan_state' = "called"
    /\ UNCHANGED <<outcomes, attempt_i, sleeps, call_state, raised_error,
                   tree_paths, exp_name, plan>>
    /\ UNCHANGED <<main_vars, agent_vars, more_vars>>

\* Lines 378-398: the response is parsed and the plan returned.
plan_return ==
    /\ plan_state = "called"
    /\ LET r == phase1_plan(response, tree_paths, exp_name) IN
       /\ plan' = r.plan
       /\ plan_state' = IF r.raised THEN "raised" ELSE "returned"
    /\ UNCHANGED <<retry_vars, tree_paths, exp_name, response>>
    /\ UNCHANGED <<main_vars, agent_vars, more_vars>>

NextPlan ==
    \/ \E text \in PlanTexts : plan_call(text)
    \/ plan_return

SpecPlan == InitPlan /\ [][NextPlan]_vars

(***************************************************************************)
(* The transcript (`messages`) of the two agent loops: the write loop of   *)
(* _phase3_write and the tool-agent loop _run_claude_tool_agent of         *)
(* github_agent_service.py, which trims its history.  A response is its    *)
(* sequence of content blocks [type, id]; a message is [role, kind,        *)
(* content], where the content of a "tool_result" message is the sequence  *)
(* of its tool_use_id.                                                     *)
(***************************************************************************)
max_agent_turns == 20
max_history_messages == 16

TaskPrompt == [role |-> "user", kind |-> "prompt", content |-> <<>>]
Nudge == [role |-> "user", kind |-> "text", content |-> <<>>]

\* The block types of a response: one or two tool calls, with or without
\* text; text only; a block of another type only; no block.
ToolShapes == { <<"tool_use">>, <<"text", "tool_use", "tool_use">> }
FinalShapes == { <<"text">>, <<"other">>, <<>> }

\* response.content of the turn-th response; block ids are unique.
Content(shape, t) ==
    [i \in 1..Len(shape) |->
        [type |-> shape[i], id |-> IF shape[i] = "tool_use" THEN 10 * t + i ELSE 0]]

\* assistant_blocks: the text and tool_use blocks, in order.
assistant_blocks(content) ==
    SelectSeq(content, LAMBDA b : b.type \in {"text", "tool_use"})

\* The tool_use ids of a sequence of blocks, in order.
RECURSIVE tool_use_ids(_)
tool_use_ids(blocks) ==
    IF blocks = <<>> THEN <<>>
    ELSE (IF Head(blocks).type = "tool_use" THEN <<Head(blocks).id>> ELSE <<>>)
         \o tool_use_ids(Tail(blocks))

\* Mutant: only the result of the last tool call is kept.
tool_result_blocks_last_only(content) ==
    LET ids == tool_use_ids(content) IN
    IF ids = <<>> THEN <<>> ELSE <<ids[Len(ids)]>>

\* tool_results / tool_result_blocks: one result per tool_use block, in order.
tool_result_blocks(content) == tool_use_ids(content)

\* The appends both loops make after the blocks of a response.
append_turn(msgs, content) ==
    LET a == assistant_blocks(content)
        r == tool_result_blocks(content)
        m1 == IF a # <<>>
              THEN Append(msgs, [role |-> "assistant", kind |-> "blocks", content |-> a])
              ELSE msgs
    IN  IF r # <<>>
        THEN Append(m1, [role |-> "user", kind |-> "tool_result", content |-> r])
        ELSE m1

\* Mutant: the trim keeps the last max_history_messages messages.
trim_history_tail_only(msgs) ==
    IF Len(msgs) > max_history_messages
    THEN SubSeq(msgs, Len(msgs) - max_history_messages + 1, Len(msgs))
    ELSE msgs

\* github_agent_service.py, lines 455-456:
\* messages = [messages[0]] + messages[-(self.max_history_messages - 1):]
trim_history(msgs) ==
    IF Len(msgs) > max_history_messages
    THEN <<msgs[1]>> \o SubSeq(msgs, Len(msgs) - (max_history_messages - 1) + 1, Len(msgs))
    ELSE msgs

InitAgent ==
    /\ InitRun
    /\ segs = 0
    /\ RetryIdle
    /\ PlanIdle
    /\ agent \in {"phase3_write", "run_claude_tool_agent"}
    /\ messages = <<TaskPrompt>>
    /\ agent_turn = 0
    /\ agent_state = "looping"
    /\ MoreIdle

\* One iteration of the write loop (lines 453-520) that calls tools.
write_turn_tools(shape) ==
    /\ agent = "phase3_write"
    /\ agent_state = "looping"
    /\ agent_turn < MAX_TURNS
    /\ tool_choice(agent_turn) = "any" => "text" \notin Range(shape)
    /\ messages' = append_turn(messages, Content(shape, agent_turn + 1))
    /\ agent_turn' = agent_turn + 1
    /\ UNCHANGED <<agent, agent_state>>
    /\ UNCHANGED <<main_vars, retry_vars, plan_vars, more_vars>>

\* One iteration of the write loop without a tool call: the loop ends on a
\* final text or on a stop reason other than end_turn; else the model is
\* asked for the final JSON (after a flush, which may raise).  _call_claude
\* raising ends the loop too.  A request that forces a tool call is not
\* answered without one.
write_turn_final(shape, call_ok, has_text, stop_reason, flush_ok) ==
    /\ agent = "phase3_write"
    /\ agent_state = "looping"
    /\ agent_turn < MAX_TURNS
    /\ call_ok => tool_choice(agent_turn) # "any"
    /\ agent_turn' = agent_turn + 1
    /\ IF ~call_ok
       THEN /\ agent_state' = "ended"
            /\ UNCHANGED messages
       ELSE LET m == append_turn(messages, Content(shape, agent_turn + 1))
                final_text_given == "text" \in Range(shape) /\ has_text
            IN  IF final_text_given \/ stop_reason # "end_turn" \/ ~flush_ok
                THEN /\ messages' = m
                     /\ agent_state' = "ended"
                ELSE /\ messages' = Append(m, Nudge)
                     /\ agent_state' = agent_state
    /\ UNCHANGED agent
    /\ UNCHANGED <<main_vars, retry_vars, plan_vars, more_vars>>

\* One iteration of the tool-agent loop (github_agent_service.py, lines
\* 408-457) that calls tools: the history is trimmed after the appends.
tool_agent_turn_tools(shape) ==
    /\ agent = "run_claude_tool_agent"
    /\ agent_state = "looping"
    /\ agent_turn < max_agent_turns
    /\ messages' = trim_history(append_turn(messages, Content(shape, agent_turn + 1)))
    /\ agent_turn' = agent_turn + 1
    /\ UNCHANGED <<agent, agent_state>>
    /\ UNCHANGED <<main_vars, retry_vars, plan_vars, more_vars>>

\* One iteration of the tool-agent loop without a tool call (lines 459-460),
\* or whose completion call raised.
tool_agent_turn_final(shape, call_ok) ==
    /\ agent = "run_claude_tool_agent"
    /\ agent_state = "looping"
    /\ agent_turn < max_agent_turns
    /\ agent_turn' = agent_turn + 1
    /\ messages' = IF call_ok
                   THEN append_turn(messages, Content(shape, agent_turn + 1))
                   ELSE messages
    /\ agent_state' = "ended"
    /\ UNCHANGED agent
    /\ UNCHANGED <<main_vars, retry_vars, plan_vars, more_vars>>

\* The for loop ran out of iterations.
loop_exhausted ==
    /\ agent_state = "looping"
    /\ agent_turn = IF agent = "phase3_write" THEN MAX_TURNS ELSE max_agent_turns
    /\ agent_state' = "ended"
    /\ UNCHANGED <<agent, messages, agent_turn>>
    /\ UNCHANGED <<main_vars, retry_vars, plan_vars, more_vars>>

NextAgent ==
    \/ \E shape \in ToolShapes : write_turn_tools(shape)
    \/ \E shape \in FinalShapes, call_ok, has_text, flush_ok \in BOOLEAN,
          stop_reason \in StopReasons :
          write_turn_final(shape, call_ok, has_text, stop_reason, flush_ok)
    \/ \E shape \in ToolShapes : tool_agent_turn_tools(shape)
    \/ \E shape \in FinalShapes, call_ok \in BOOLEAN : tool_agent_turn_final(shape, call_ok)
    \/ loop_exhausted

SpecAgent == InitAgent /\ [][NextAgent]_vars

(***************************************************************************)
(* The tree cache: _get_tree called on the default and on the working      *)
(* branch at any point between write_file calls and flushes of one         *)
(* service instance.  The default branch stays at BaseCommit; a commit's   *)
(* id stands for its sha.                                                  *)
(***************************************************************************)
MaxCommits == 2         \* commits added to the working branch

Branches == {"default", "working"}

\* repo.get_branch(branch_name).commit
branch_commit(branch_name, hd) == IF branch_name = "default" THEN BaseCommit ELSE hd

\* repo.get_git_tree(sha, recursive=True): the blobs of the commit with that sha.
git_tree_paths(sha, hd) == IF sha = hd.id THEN DOMAIN hd.tree ELSE DOMAIN BaseTree

\* Mutant: a cached list is returned whatever checksum it was stored with.
get_tree_ignoring_sha(branch_name, hd, ctree, csha) ==
    LET sha == branch_commit(branch_name, hd).id IN
    IF ctree.valid
    THEN [paths |-> ctree.paths, fetched |-> FALSE, cached_tree |-> ctree, cached_sha |-> csha]
    ELSE [paths |-> git_tree_paths(sha, hd), fetched |-> TRUE,
          cached_tree |-> [valid |-> TRUE, paths |-> git_tree_paths(sha, hd)],
          cached_sha |-> sha]

\* _get_tree, lines 56-63.
get_tree(branch_name, hd, ctree, csha) ==
    LET sha == branch_commit(branch_name, hd).id IN
    IF ctree.valid /\ csha = sha
    THEN [paths |-> ctree.paths, fetched |-> FALSE, cached_tree |-> ctree, cached_sha |-> csha]
    ELSE [paths |-> git_tree_paths(sha, hd), fetched |-> TRUE,
          cached_tree |-> [valid |-> TRUE, paths |-> git_tree_paths(sha, hd)],
          cached_sha |-> sha]

InitTree ==
    /\ pc = "tree"
    /\ status = "implementing"
    /\ pr_url = None
    /\ segs = 0
    /\ branch = "created"
    /\ head = BaseCommit
    /\ cached_sha = NoSha
    /\ staged = EmptyMap
    /\ turn = 0
    /\ nblocks = 0
    /\ tool_results = FALSE
    /\ text_chunks = <<>>
    /\ final_text = <<>>
    /\ appended = NoTurn
    /\ stop = NoStop
    /\ last = NoLast
    /\ result = NoResult
    /\ pulls = 0
    /\ error = None
    /\ RetryIdle
    /\ PlanIdle
    /\ AgentIdle
    /\ cached_tree = NoTree
    /\ got_tree = NoGot
    /\ RunsIdle
    /\ LateIdle

\* A call of _get_tree.
tree_get(branch_name) ==
    /\ LET g == get_tree(branch_name, head, cached_tree, cached_sha) IN
       /\ got_tree' = [branch |-> branch_name, paths |-> g.paths]
       /\ cached_tree' = g.cached_tree
       /\ cached_sha' = g.cached_sha
       /\ last' = ToolResult("get_tree", TRUE, Cardinality(g.paths),
                             IF g.fetched THEN 1 ELSE 0)
    /\ UNCHANGED <<pc, segs, branch, head, staged, turn, nblocks, tool_results,
                   text_chunks, final_text, appended, stop, result, pulls, error, status, pr_url>>
    /\ UNCHANGED <<retry_vars, plan_vars, agent_vars, runs_vars, late_vars>>

\* A write_file call.
tree_write_file(path, content) ==
    /\ LET r == execute_write_tool("write_file", [path |-> path, content |-> content],
                                   staged, head, cached_sha, NoEnv) IN
       /\ staged' = r.staged
       /\ last' = r.res
    /\ UNCHANGED <<pc, segs, branch, head, cached_sha, turn, nblocks, tool_results,
                   text_chunks, final_text, appended, stop, result, pulls, error, status, pr_url>>
    /\ UNCHANGED <<retry_vars, plan_vars, agent_vars, tree_vars, runs_vars, late_vars>>

\* A call of _flush_staged_writes; line 217 invalidates both cache fields.
tree_flush(failAt) ==
    /\ head.id < MaxCommits
    /\ LET f == flush_staged_writes(staged, head, cached_sha, failAt) IN
       /\ staged' = f.staged
       /\ head' = f.head
       /\ cached_sha' = f.cache
       /\ cached_tree' = IF ~f.raised /\ f.count > 0 THEN NoTree ELSE cached_tree
       /\ last' = ToolResult("flush_writes", ~f.raised, f.count, f.calls)
    /\ UNCHANGED got_tree
    /\ UNCHANGED <<pc, segs, branch, turn, nblocks, tool_results,
                   text_chunks, final_text, appended, stop, result, pulls, error, status, pr_url>>
    /\ UNCHANGED <<retry_vars, plan_vars, agent_vars, runs_vars, late_vars>>

NextTree ==
    \/ \E b \in Branches : tree_get(b)
    \/ \E path \in PathInputs, content \in Contents : tree_write_file(path, content)
    \/ \E failAt \in FailPoints(staged) : tree_flush(failAt)

SpecTree == InitTree /\ [][NextTree]_vars

(***************************************************************************)
(* Two runs in two threads (routes/experiments.py starts one thread per    *)
(* experiment; implement_experiment_sync constructs its own                *)
(* GitHubAgentService) on one repository.  A dict is an object on the heap *)
(* and a service holds a reference to its _staged_writes.  What a run      *)
(* writes is tagged with the run, so that a tree shows who wrote its       *)
(* files.  A step is one statement of one run; runs interleave freely.     *)
(***************************************************************************)
RunPaths == {<<"a">>, <<"b">>}
BranchNames == {"exp-s-100", "exp-s-101"}   \* exp-<slug>-<int(time.time())>

ContentOf(r) == IF r = 1 THEN "r1" ELSE "r2"

\* Mutant: _staged_writes is one dict shared by all instances.
new_staged_ref_shared(hp) == 1

\* __init__, line 36: self._staged_writes = {} allocates a new dict.
new_staged_ref(hp) == Len(hp) + 1

\* Mutant: create_git_ref does not notice an existing reference.
git_ref_exists_never(name, rf) == FALSE

\* repo.create_git_ref raises (422) when the reference exists already.
git_ref_exists(name, rf) == name \in DOMAIN rf

StagedOf(r) == IF svc[r].staged_ref = NoRef THEN EmptyMap ELSE heap[svc[r].staged_ref]

InitRuns ==
    /\ InitRun
    /\ segs = 0
    /\ RetryIdle
    /\ PlanIdle
    /\ AgentIdle
    /\ TreeIdle
    /\ LateIdle
    /\ heap = <<>>
    /\ svc = [r \in Runs |-> [staged_ref |-> NoRef, cached_sha |-> NoSha]]
    /\ run \in [Runs -> [pc : {"new"}, name : BranchNames]]
    /\ refs = [n \in {} |-> None]
    /\ actor = 0

\* implement_experiment_sync, line 134: GitHubAgentService(...).
run_construct(r) ==
    /\ run[r].pc = "new"
    /\ heap' = Append(heap, EmptyMap)
    /\ svc' = [svc EXCEPT ![r] = [staged_ref |-> new_staged_ref(heap), cached_sha |-> NoSha]]
    /\ run' = [run EXCEPT ![r].pc = "constructed"]
    /\ actor' = r
    /\ UNCHANGED refs
    /\ UNCHANGED <<main_vars, retry_vars, plan_vars, agent_vars, tree_vars, late_vars>>

\* create_experiment_pr, lines 582-584: the working branch is created.
run_create_branch(r) ==
    /\ run[r].pc = "constructed"
    /\ IF git_ref_exists(run[r].name, refs)
       THEN /\ run' = [run EXCEPT ![r].pc = "failed"]
            /\ UNCHANGED refs
       ELSE /\ run' = [run EXCEPT ![r].pc = "branch"]
            /\ refs' = [n \in DOMAIN refs \cup {run[r].name} |->
                          IF n = run[r].name
                          THEN [owner |-> r, tree |-> BaseTree, committers |-> {}]
                          ELSE refs[n]]
    /\ actor' = r
    /\ UNCHANGED <<heap, svc>>
    /\ UNCHANGED <<main_vars, retry_vars, plan_vars, agent_vars, tree_vars, late_vars>>

\* create_experiment_pr, line 591: _get_tree(repo, default_branch).
run_get_tree(r) ==
    /\ run[r].pc = "branch"
    /\ svc' = [svc EXCEPT ![r].cached_sha = BaseCommit.id]
    /\ run' = [run EXCEPT ![r].pc = "planned"]
    /\ actor' = r
    /\ UNCHANGED <<heap, refs>>
    /\ UNCHANGED <<main_vars, retry_vars, plan_vars, agent_vars, tree_vars, late_vars>>

\* create_experiment_pr, lines 679-680.
run_begin_phase3(r) ==
    /\ run[r].pc = "planned"
    /\ heap' = [heap EXCEPT ![svc[r].staged_ref] = EmptyMap]
    /\ svc' = [svc EXCEPT ![r].cached_sha = NoSha]
    /\ run' = [run EXCEPT ![r].pc = "phase3"]
    /\ actor' = r
    /\ UNCHANGED refs
    /\ UNCHANGED <<main_vars, retry_vars, plan_vars, agent_vars, tree_vars, late_vars>>

\* _execute_write_tool, write_file: self._staged_writes[path] = content.
run_write_file(r, path) ==
    /\ run[r].pc = "phase3"
    /\ heap' = [heap EXCEPT ![svc[r].staged_ref] = overlay(@, path :> ContentOf(r))]
    /\ actor' = r
    /\ UNCHANGED <<svc, run, refs>>
    /\ UNCHANGED <<main_vars, retry_vars, plan_vars, agent_vars, tree_vars, late_vars>>

\* _flush_staged_writes on the run's branch (every repository call succeeds).
run_flush(r) ==
    /\ run[r].pc = "phase3"
    /\ StagedOf(r) # EmptyMap
    /\ refs' = [refs EXCEPT ![run[r].name] =
                   [owner |-> @.owner,
                    tree |-> overlay(@.tree, StagedOf(r)),
                    committers |-> @.committers \cup {r}]]
    /\ heap' = [heap EXCEPT ![svc[r].staged_ref] = EmptyMap]
    /\ svc' = [svc EXCEPT ![r].cached_sha = NoSha]
    /\ actor' = r
    /\ UNCHANGED run
    /\ UNCHANGED <<main_vars, retry_vars, plan_vars, agent_vars, tree_vars, late_vars>>

\* _phase3_write returns and the pull request is opened.
run_finish(r) ==
    /\ run[r].pc = "phase3"
    /\ StagedOf(r) = EmptyMap
    /\ run' = [run EXCEPT ![r].pc = "done"]
    /\ actor' = r
    /\ UNCHANGED <<heap, svc, refs>>
    /\ UNCHANGED <<main_vars, retry_vars, plan_vars, agent_vars, tree_vars, late_vars>>

NextRuns ==
    \E r \in Runs :
        \/ run_construct(r)
        \/ run_create_branch(r)
        \/ run_get_tree(r)
        \/ run_begin_phase3(r)
        \/ \E path \in RunPaths : run_write_file(r, path)
        \/ run_flush(r)
        \/ run_finish(r)

SpecRuns == InitRuns /\ [][NextRuns]_vars


(***************************************************************************)
(* The completion requests of the write phase: the iterations of the for  *)
(* loop of _phase3_write (line 453), each with the attempts of its        *)
(* _call_claude (lines 304-324).  What a response makes the loop do is    *)
(* one of: continue (tool results, a nudge), break (a final text, another *)
(* stop reason), raise (the auto-flush failed).                           *)
(***************************************************************************)
LoopEffects == {"continue", "break", "raise"}

\* Mutant: the for loop runs twice as long.
LoopAfterTwice(t) == IF t < 2 * MAX_TURNS THEN "looping" ELSE "exited"

\* `for turn in range(MAX_TURNS)` after t iterations: another one, or the
\* statements after the loop.
LoopAfter(t) == IF LoopNext(t) = "call" THEN "looping" ELSE "exited"

InitBudget ==
    /\ InitRun
    /\ segs = 0
    /\ outcomes = <<>>
    /\ attempt_i = 0
    /\ create_calls = 0
    /\ sleeps = 0
    /\ call_state = "idle"
    /\ raised_error = NoError
    /\ PlanIdle
    /\ agent = "write_phase"
    /\ messages = <<>>
    /\ agent_turn = 0
    /\ agent_state = LoopAfter(0)
    /\ MoreIdle

\* Lines 453-458: an iteration begins and enters _call_claude.
budget_iterate ==
    /\ agent = "write_phase"
    /\ agent_state = "looping"
    /\ agent_turn' = agent_turn + 1
    /\ agent_state' = "calling"
    /\ attempt_i' = 0
    /\ call_state' = "trying"
    /\ UNCHANGED <<agent, messages, outcomes, create_calls, sleeps, raised_error>>
    /\ UNCHANGED <<main_vars, plan_vars, more_vars>>

\* _call_claude, lines 304-320: one attempt of messages.create.
budget_attempt(out) ==
    /\ agent = "write_phase"
    /\ agent_state = "calling"
    /\ call_state = "trying"
    /\ IF attempt_i >= max_agent_retries
       THEN /\ call_state' = "raised"
            /\ agent_state' = "raised"
            /\ UNCHANGED create_calls
       ELSE /\ create_calls' = create_calls + 1
            /\ IF out = "ok"
               THEN /\ call_state' = "returned"
                    /\ agent_state' = "responded"
               ELSE IF ~is_retryable_error(out) \/ is_last_attempt(attempt_i)
               THEN /\ call_state' = "raised"
                    /\ agent_state' = "raised"
               ELSE /\ call_state' = "sleeping"
                    /\ UNCHANGED agent_state
    /\ UNCHANGED <<agent, messages, agent_turn, outcomes, attempt_i, sleeps, raised_error>>
    /\ UNCHANGED <<main_vars, plan_vars, more_vars>>

\* _call_claude, lines 321-323: the backoff sleep, then the next attempt.
budget_sleep ==
    /\ agent = "write_phase"
    /\ call_state = "sleeping"
    /\ attempt_i' = attempt_i + 1
    /\ call_state' = "trying"
    /\ UNCHANGED <<outcomes, create_calls, sleeps, raised_error>>
    /\ UNCHANGED <<agent_vars, main_vars, plan_vars, more_vars>>

\* Lines 459-520: the blocks of the response are handled, and the iteration
\* ends in a continue, a break or an exception.
budget_respond(effect) ==
    /\ agent = "write_phase"
    /\ agent_state = "responded"
    /\ agent_state' = CASE effect = "continue" -> LoopAfter(agent_turn)
                        [] effect = "break" -> "exited"
                        [] OTHER -> "raised"
    /\ call_state' = "idle"
    /\ UNCHANGED <<agent, messages, agent_turn>>
    /\ UNCHANGED <<outcomes, attempt_i, create_calls, sleeps, raised_error>>
    /\ UNCHANGED <<main_vars, plan_vars, more_vars>>

\* Lines 522-557: the safety flush, the final comparison and the payload;
\* the flush and the too-few-files test may raise.
budget_finish(ok) ==
    /\ agent = "write_phase"
    /\ agent_state = "exited"
    /\ agent_state' = IF ok THEN "returned" ELSE "raised"
    /\ UNCHANGED <<agent, messages, agent_turn>>
    /\ UNCHANGED <<retry_vars, main_vars, plan_vars, more_vars>>

NextBudget ==
    \/ budget_iterate
    \/ \E out \in Outcomes : budget_attempt(out)
    \/ budget_sleep
    \/ \E effect \in LoopEffects : budget_respond(effect)
    \/ \E ok \in BOOLEAN : budget_finish(ok)

\* Every external call returns or fails: a step that can be taken is taken.
SpecBudget == InitBudget /\ [][NextBudget]_vars /\ WF_vars(NextBudget)

(***************************************************************************)
(* The context reader: create_experiment_pr, lines 608-614, and            *)
(* _phase2_read, lines 404-417.  A path is a string; "" is the empty       *)
(* string and None a missing value.                                        *)
(***************************************************************************)
ReadCap == 8

\* list(dict.fromkeys(xs)): the first occurrence of each element, in order.
RECURSIVE dict_fromkeys(_)
dict_fromkeys(xs) ==
    IF xs = <<>> THEN <<>>
    ELSE LET init == dict_fromkeys(SubSeq(xs, 1, Len(xs) - 1))
             x == xs[Len(xs)]
         IN  IF x \in Range(init) THEN init ELSE Append(init, x)

truthy(f) == f # None /\ f # ""

\* Lines 608-611: files_to_read plus the integration target, the falsy ones
\* and those outside the tree dropped, then deduplicated.
select_files_to_read(p, tree) ==
    dict_fromkeys(SelectSeq(p.files_to_read \o <<p.integration_target>>,
                            LAMBDA f : truthy(f) /\ f \in tree))

\* paths[:8]
capped(paths) == SubSeq(paths, 1, Min(ReadCap, Len(paths)))

\* What repo.get_contents and the decoding may do for one path.
ReadOutcomes == {"file", "directory", "missing", "not_utf8", "api_error"}

\* Mutant: only a file that is read lets the batch go on.
read_goes_on_after_a_file_only(outcome) == outcome = "file"

\* The outcomes the try of lines 409-416 lets through to the next path: all
\* of them (a list is skipped, `except Exception` catches the rest).
read_goes_on(outcome) == outcome \in ReadOutcomes

TenPaths == <<"p1", "p2", "p3", "p4", "p5", "p6", "p7", "p8", "p9", "p10">>

\* The plans: files_to_read a prefix of ten paths, or a list with
\* duplicates, an empty string, a missing value and an unknown path.
ReadLists ==
    {SubSeq(TenPaths, 1, n) : n \in {0, 1, 8, 9, 10}}
    \cup {<<"p2", "p1", "p2", "", "zz", "p1">>, <<None, "p3">>}

ReadTargets == {None, "", "p1", "p10", "zz"}

ReadTrees == {{}, {"p1", "p2"}, Range(TenPaths)}

InitRead ==
    /\ InitRun
    /\ segs = 0
    /\ RetryIdle
    /\ PlanIdle
    /\ AgentIdle
    /\ TreeIdle
    /\ RunsIdle
    /\ CompactIdle
    /\ HashIdle
    /\ RaceIdle
    /\ StageIdle
    /\ read_plan \in [files_to_read : ReadLists, integration_target : ReadTargets]
    /\ read_tree \in ReadTrees
    /\ to_read = <<>>
    /\ requested = <<>>
    /\ contents = {}
    /\ read_state = "planned"

\* Lines 608-613: the list is built and _phase2_read is called.
read_select ==
    /\ read_state = "planned"
    /\ to_read' = select_files_to_read(read_plan, read_tree)
    /\ read_state' = "reading"
    /\ UNCHANGED <<read_plan, read_tree, requested, contents>>
    /\ UNCHANGED <<main_vars, retry_vars, plan_vars, agent_vars, tree_vars, runs_vars>>
    /\ UNCHANGED <<compact_vars, hash_vars, race_vars, stage_vars>>

\* _phase2_read, lines 406-416: one iteration of the for loop.
read_path(outcome) ==
    /\ read_state = "reading"
    /\ Len(requested) < Len(capped(to_read))
    /\ LET path == capped(to_read)[Len(requested) + 1] IN
       /\ requested' = Append(requested, path)
       /\ contents' = IF outcome = "file" THEN contents \cup {path} ELSE contents
    /\ read_state' = IF read_goes_on(outcome) THEN "reading" ELSE "aborted"
    /\ UNCHANGED <<read_plan, read_tree, to_read>>
    /\ UNCHANGED <<main_vars, retry_vars, plan_vars, agent_vars, tree_vars, runs_vars>>
    /\ UNCHANGED <<compact_vars, hash_vars, race_vars, stage_vars>>

\* _phase2_read, line 417: return contents.
read_return ==
    /\ read_state = "reading"
    /\ Len(requested) = Len(capped(to_read))
    /\ read_state' = "returned"
    /\ UNCHANGED <<read_plan, read_tree, to_read, requested, contents>>
    /\ UNCHANGED <<main_vars, retry_vars, plan_vars, agent_vars, tree_vars, runs_vars>>
    /\ UNCHANGED <<compact_vars, hash_vars, race_vars, stage_vars>>

NextRead ==
    \/ read_select
    \/ \E outcome \in ReadOutcomes : read_path(outcome)
    \/ read_return

SpecRead == InitRead /\ [][NextRead]_vars

(***************************************************************************)
(* _compact_result, lines 285-293, and the tool_result block of line 497.  *)
(* A result is given by the lengths that decide: json.dumps(result) has    *)
(* `fixed` characters apart from the entries of "files", of file_len       *)
(* characters each; `escapes` counts the characters among the first        *)
(* max_tool_result_chars of the serialization that json.dumps writes with  *)
(* a backslash (the quotes of the keys at least).                          *)
(***************************************************************************)
max_tool_result_chars == 10000
compare_files_kept == 30

ToolNameLen == [write_file |-> 10, flush_writes |-> 12, compare_changes |-> 15]

\* len(json.dumps(compact)) after lines 286-288: files cut to 30 entries.
serialized_len(r) ==
    LET kept == IF r.tool = "compare_changes"
                THEN Min(r.nfiles, compare_files_kept) ELSE r.nfiles
    IN  r.fixed + kept * r.file_len

\* len(json.dumps({"ok": .., "tool": .., "truncated": true, "preview": p})):
\* 58 characters of keys and punctuation, false one longer than true, the
\* tool name, and the preview with its escapes.
wrapped_len(r, preview_len) ==
    58 + (IF r.ok THEN 0 ELSE 1) + ToolNameLen[r.tool] + preview_len + r.escapes

\* _compact_result followed by json.dumps (line 497).
compact_result(r) ==
    IF serialized_len(r) > max_tool_result_chars
    THEN [truncated |-> TRUE,
          len |-> wrapped_len(r, Min(serialized_len(r), max_tool_result_chars)),
          appended |-> TRUE]
    ELSE [truncated |-> FALSE, len |-> serialized_len(r), appended |-> TRUE]

\* The results: short ones, ones at the ceiling, and long ones (a write_file
\* whose path has 10000 characters serializes to 10059).
ToolOuts ==
    { [tool |-> t, ok |-> ok, fixed |-> f, nfiles |-> n, file_len |-> fl, escapes |-> e] :
        t \in DOMAIN ToolNameLen, ok \in BOOLEAN,
        f \in {60, 9999, 10000, 10001, 10059},
        n \in {0, 30, 50}, fl \in {100, 400}, e \in {2, 8} }

\* What _execute_write_tool returns (lines 256-283): only compare_changes
\* lists files; a failure carries at most 300 characters of the error, and
\* the result of flush_writes is a count; the path a write_file result
\* echoes is as long as the model made it.
RealResult(r) ==
    /\ r.tool # "compare_changes" => r.nfiles = 0
    /\ (~r.ok \/ r.tool = "flush_writes") => (r.fixed = 60 /\ r.nfiles = 0)

InitCompact ==
    /\ InitRun
    /\ segs = 0
    /\ RetryIdle
    /\ PlanIdle
    /\ AgentIdle
    /\ TreeIdle
    /\ RunsIdle
    /\ ReadIdle
    /\ HashIdle
    /\ RaceIdle
    /\ StageIdle
    /\ tool_out \in {r \in ToolOuts : RealResult(r)}
    /\ block_content = NoBlock

\* _phase3_write, lines 496-497.
append_tool_result ==
    /\ ~block_content.appended
    /\ block_content' = compact_result(tool_out)
    /\ UNCHANGED tool_out
    /\ UNCHANGED <<main_vars, retry_vars, plan_vars, agent_vars, tree_vars, runs_vars>>
    /\ UNCHANGED <<read_vars, hash_vars, race_vars, stage_vars>>

NextCompact == append_tool_result

SpecCompact == InitCompact /\ [][NextCompact]_vars

(***************************************************************************)
(* The preview hashes: create_experiment (routes/experiments.py, lines     *)
(* 119-124), implement_experiment_sync (lines 91-121) and the hash mapping *)
(* of create_experiment_pr (lines 579 and 620-627).  A string is a         *)
(* sequence of characters, "test" written as one.                          *)
(***************************************************************************)
Digit == <<"0", "1", "2", "3", "4", "5", "6", "7", "8", "9">>

\* str(n) for n >= 0
RECURSIVE Str(_)
Str(n) == IF n < 10 THEN <<Digit[n + 1]>> ELSE Str(n \div 10) \o <<Digit[(n % 10) + 1]>>

\* sorted(segments, key=lambda s: s.id), as the ids
RECURSIVE sorted_ids(_)
sorted_ids(ids) ==
    IF ids = {} THEN <<>>
    ELSE LET m == CHOOSE x \in ids : \A y \in ids : x <= y
         IN  <<m>> \o sorted_ids(ids \ {m})

\* {str(seg.id): f"test{i + 1}" for i, seg in enumerate(segments_sorted)}
generated_hashes(segments) ==
    LET srt == sorted_ids({segments[k].id : k \in DOMAIN segments})
    IN  [key \in {Str(srt[i]) : i \in DOMAIN srt} |->
            LET i == CHOOSE j \in DOMAIN srt : Str(srt[j]) = key
            IN  <<"test">> \o Str(i)]

PyNone == <<"None">>
Unknown == <<"???">>

\* d.get(key, default)
dict_get(d, key, default) == IF key \in DOMAIN d THEN d[key] ELSE default

\* implement_experiment_sync, lines 92-121.
build_experiment_json(segments, stored) ==
    LET segment_preview_hashes ==
            IF stored.present THEN stored.map ELSE generated_hashes(segments)
    IN  [built |-> TRUE,
         segment_preview_hashes |-> segment_preview_hashes,
         segments |->
            [k \in DOMAIN segments |->
                [id |-> segments[k].id,
                 name |-> segments[k].name,
                 preview_hash |->
                    dict_get(segment_preview_hashes, Str(segments[k].id), PyNone)]]]

\* Mutant: the hash of a segment is looked up under its position.
segment_hash_by_position(seg, preview_hashes, k) ==
    dict_get(preview_hashes, Str(k), Unknown)

\* Line 623: seg.get("preview_hash", preview_hashes.get(str(seg["id"]), "???"));
\* k is the position of the segment, which the code does not use.
segment_hash(seg, preview_hashes, k) ==
    dict_get(seg, "preview_hash", dict_get(preview_hashes, Str(seg.id), Unknown))

\* Lines 620-627: one line per segment, given by what is written into it.
build_hash_mapping(experiment_data) ==
    LET preview_hashes == experiment_data.segment_preview_hashes
        segments == experiment_data.segments
    IN  [built |-> TRUE,
         lines |->
            [k \in DOMAIN segments |->
                LET h == segment_hash(segments[k], preview_hashes, k) IN
                [name |-> segments[k].name, id |-> Str(segments[k].id),
                 preview_hash |-> h, url_hash |-> h]]]

SegmentIds == {3, 7, 12}
SegmentNames == {"control", "variant"}

\* experiment.segments: segments with distinct ids, in any order.
SegmentLists ==
    UNION { {sl \in [1..n -> [id : SegmentIds, name : SegmentNames]] :
                \A i, j \in 1..n : i # j => sl[i].id # sl[j].id} : n \in 0..3 }

InitHash ==
    /\ InitRun
    /\ segs = 0
    /\ RetryIdle
    /\ PlanIdle
    /\ AgentIdle
    /\ TreeIdle
    /\ RunsIdle
    /\ ReadIdle
    /\ CompactIdle
    /\ RaceIdle
    /\ StageIdle
    /\ exp_segments \in SegmentLists
    /\ \E stored \in BOOLEAN :
          stored_hashes = IF stored
                          THEN [present |-> TRUE, map |-> generated_hashes(exp_segments)]
                          ELSE NoHashes
    /\ experiment_json = NoJson
    /\ hash_mapping = NoMapping

\* implement_experiment_sync, lines 92-121.
sync_prepare_json ==
    /\ ~experiment_json.built
    /\ experiment_json' = build_experiment_json(exp_segments, stored_hashes)
    /\ stored_hashes' = [present |-> TRUE,
                         map |-> experiment_json'.segment_preview_hashes]
    /\ UNCHANGED <<exp_segments, hash_mapping>>
    /\ UNCHANGED <<main_vars, retry_vars, plan_vars, agent_vars, tree_vars, runs_vars>>
    /\ UNCHANGED <<read_vars, compact_vars, race_vars, stage_vars>>

\* create_experiment_pr, lines 620-627.
write_hash_mapping ==
    /\ experiment_json.built
    /\ ~hash_mapping.built
    /\ hash_mapping' = build_hash_mapping(experiment_json)
    /\ UNCHANGED <<exp_segments, stored_hashes, experiment_json>>
    /\ UNCHANGED <<main_vars, retry_vars, plan_vars, agent_vars, tree_vars, runs_vars>>
    /\ UNCHANGED <<read_vars, compact_vars, race_vars, stage_vars>>

NextHash == sync_prepare_json \/ write_hash_mapping

SpecHash == InitHash /\ [][NextHash]_vars

(***************************************************************************)
(* The status of one experiment: the implementation thread started by      *)
(* create_experiment (routes/experiments.py, lines 128-143), the routes    *)
(* activate_experiment (458-496) and finish_experiment (499-583) with its  *)
(* analysis thread.  Each has its own database session; a commit writes    *)
(* the status column of the row, whatever it held.                         *)
(***************************************************************************)
MaxRouteCalls == 3

InitRace ==
    /\ InitRun
    /\ segs = 0
    /\ RetryIdle
    /\ PlanIdle
    /\ AgentIdle
    /\ TreeIdle
    /\ RunsIdle
    /\ ReadIdle
    /\ CompactIdle
    /\ HashIdle
    /\ StageIdle
    /\ db_status = "started"
    /\ impl_pc = "start"
    /\ job_pc = "idle"
    /\ route_calls = 0
    /\ race_actor = "none"

\* implement_experiment_sync, lines 73-86: the lookups, then the status
\* "implementing" (or "failed" without a project) is committed.
impl_begin(found_project) ==
    /\ impl_pc = "start"
    /\ IF found_project
       THEN /\ db_status' = "implementing"
            /\ impl_pc' = "events"
       ELSE /\ db_status' = "failed"
            /\ impl_pc' = "returned"
    /\ race_actor' = "impl"
    /\ UNCHANGED <<job_pc, route_calls>>
    /\ UNCHANGED <<main_vars, retry_vars, plan_vars, agent_vars, tree_vars, runs_vars>>
    /\ UNCHANGED <<read_vars, compact_vars, hash_vars, stage_vars>>

\* implement_experiment_sync, lines 88-131: step 1; an exception goes to
\* the handler.
impl_events(ok) ==
    /\ impl_pc = "events"
    /\ impl_pc' = IF ok THEN "pr" ELSE "except"
    /\ UNCHANGED <<db_status, job_pc, route_calls, race_actor>>
    /\ UNCHANGED <<main_vars, retry_vars, plan_vars, agent_vars, tree_vars, runs_vars>>
    /\ UNCHANGED <<read_vars, compact_vars, hash_vars, stage_vars>>

\* implement_experiment_sync, lines 134-151: create_experiment_pr, then the
\* status "pr_created" is committed.
impl_pr(ok) ==
    /\ impl_pc = "pr"
    /\ IF ok
       THEN /\ db_status' = "pr_created"
            /\ race_actor' = "impl"
            /\ impl_pc' = "returned"
       ELSE /\ impl_pc' = "except"
            /\ UNCHANGED <<db_status, race_actor>>
    /\ UNCHANGED <<job_pc, route_calls>>
    /\ UNCHANGED <<main_vars, retry_vars, plan_vars, agent_vars, tree_vars, runs_vars>>
    /\ UNCHANGED <<read_vars, compact_vars, hash_vars, stage_vars>>

\* implement_experiment_sync, lines 153-161: the handler commits "failed".
impl_except ==
    /\ impl_pc = "except"
    /\ db_status' = "failed"
    /\ race_actor' = "impl"
    /\ impl_pc' = "returned"
    /\ UNCHANGED <<job_pc, route_calls>>
    /\ UNCHANGED <<main_vars, retry_vars, plan_vars, agent_vars, tree_vars, runs_vars>>
    /\ UNCHANGED <<read_vars, compact_vars, hash_vars, stage_vars>>

\* activate_experiment, lines 486-487.
activate_experiment ==
    /\ route_calls < MaxRouteCalls
    /\ db_status' = "active"
    /\ race_actor' = "route"
    /\ route_calls' = route_calls + 1
    /\ UNCHANGED <<impl_pc, job_pc>>
    /\ UNCHANGED <<main_vars, retry_vars, plan_vars, agent_vars, tree_vars, runs_vars>>
    /\ UNCHANGED <<read_vars, compact_vars, hash_vars, stage_vars>>

\* finish_experiment, lines 527-528 and 572-575: the status "finishing" is
\* committed and the analysis thread is started.
finish_experiment ==
    /\ route_calls < MaxRouteCalls
    /\ job_pc = "idle"
    /\ db_status' = "finishing"
    /\ race_actor' = "route"
    /\ route_calls' = route_calls + 1
    /\ job_pc' = "analysing"
    /\ UNCHANGED impl_pc
    /\ UNCHANGED <<main_vars, retry_vars, plan_vars, agent_vars, tree_vars, runs_vars>>
    /\ UNCHANGED <<read_vars, compact_vars, hash_vars, stage_vars>>

\* finish_job, lines 531-570: "finished", or "failed" after an exception.
finish_job(ok) ==
    /\ job_pc = "analysing"
    /\ db_status' = IF ok THEN "finished" ELSE "failed"
    /\ race_actor' = "job"
    /\ job_pc' = "done"
    /\ UNCHANGED <<impl_pc, route_calls>>
    /\ UNCHANGED <<main_vars, retry_vars, plan_vars, agent_vars, tree_vars, runs_vars>>
    /\ UNCHANGED <<read_vars, compact_vars, hash_vars, stage_vars>>

NextRace ==
    \/ \E found_project \in BOOLEAN : impl_begin(found_project)
    \/ \E ok \in BOOLEAN : impl_events(ok)
    \/ \E ok \in BOOLEAN : impl_pr(ok)
    \/ impl_except
    \/ activate_experiment
    \/ finish_experiment
    \/ \E ok \in BOOLEAN : finish_job(ok)

SpecRace == InitRace /\ [][NextRace]_vars

(***************************************************************************)
(* write_file calls and flushes of one service instance, with the record   *)
(* of what each accepted write_file wrote since the last flush.            *)
(***************************************************************************)
MaxWrites == 3

StagePaths == { <<"a">>, <<"/", "a">>, <<"b">>, <<".", ".", "/", "a">> }

\* The number of accepted writes on record.
RECURSIVE WritesOf(_)
WritesOf(w) ==
    IF DOMAIN w = {} THEN 0
    ELSE LET p == CHOOSE q \in DOMAIN w : TRUE
         IN  Len(w[p]) + WritesOf([q \in DOMAIN w \ {p} |-> w[q]])

\* The record after one more accepted write.
record_write(w, path, content) ==
    [q \in DOMAIN w \cup {path} |->
        IF q = path
        THEN (IF path \in DOMAIN w THEN Append(w[path], content) ELSE <<content>>)
        ELSE w[q]]

InitStage ==
    /\ pc = "stage"
    /\ status = "implementing"
    /\ pr_url = None
    /\ segs = 0
    /\ branch = "created"
    /\ head = BaseCommit
    /\ cached_sha = NoSha
    /\ staged = EmptyMap
    /\ turn = 0
    /\ nblocks = 0
    /\ tool_results = FALSE
    /\ text_chunks = <<>>
    /\ final_text = <<>>
    /\ appended = NoTurn
    /\ stop = NoStop
    /\ last = NoLast
    /\ result = NoResult
    /\ pulls = 0
    /\ error = None
    /\ RetryIdle
    /\ PlanIdle
    /\ AgentIdle
    /\ TreeIdle
    /\ RunsIdle
    /\ ReadIdle
    /\ CompactIdle
    /\ HashIdle
    /\ RaceIdle
    /\ written = EmptyMap
    /\ flushed = EmptyMap

\* _execute_write_tool, lines 260-266: a write_file call.
stage_write_file(path, content) ==
    /\ WritesOf(written) < MaxWrites
    /\ LET r == execute_write_tool("write_file", [path |-> path, content |-> content],
                                   staged, head, cached_sha, NoEnv) IN
       /\ staged' = r.staged
       /\ last' = r.res
       /\ written' = IF r.res.ok
                     THEN record_write(written, normalize_path(path), content)
                     ELSE written
    /\ UNCHANGED flushed
    /\ UNCHANGED <<pc, segs, branch, head, cached_sha, turn, nblocks, tool_results,
                   text_chunks, final_text, appended, stop, result, pulls, error, status, pr_url>>
    /\ UNCHANGED <<retry_vars, plan_vars, agent_vars, tree_vars, runs_vars>>
    /\ UNCHANGED <<read_vars, compact_vars, hash_vars, race_vars>>

\* _flush_staged_writes, lines 198-218.
stage_flush(failAt) ==
    /\ head.id < MaxCommits
    /\ LET f == flush_staged_writes(staged, head, cached_sha, failAt) IN
       /\ staged' = f.staged
       /\ head' = f.head
       /\ cached_sha' = f.cache
       /\ last' = ToolResult("flush_writes", ~f.raised, f.count, f.calls)
       /\ written' = IF f.raised THEN written ELSE EmptyMap
       /\ flushed' = IF ~f.raised /\ f.count > 0 THEN written ELSE flushed
    /\ UNCHANGED <<pc, segs, branch, turn, nblocks, tool_results,
                   text_chunks, final_text, appended, stop, result, pulls, error, status, pr_url>>
    /\ UNCHANGED <<retry_vars, plan_vars, agent_vars, tree_vars, runs_vars>>
    /\ UNCHANGED <<read_vars, compact_vars, hash_vars, race_vars>>

NextStage ==
    \/ \E path \in StagePaths, content \in Contents : stage_write_file(path, content)
    \/ \E failAt \in FailPoints(staged) : stage_flush(failAt)

SpecStage == InitStage /\ [][NextStage]_vars

(***************************************************************************)
(* Properties.                                                             *)
(***************************************************************************)
Keys(m) == DOMAIN m

\* A step in which _flush_staged_writes ran (from the flush_writes tool, the
\* nudge or the safety flush).
FlushRan == last'.op = "flush_writes"

\* C1: a successful flush of a non-empty staged set S creates exactly one new
\* commit on the working branch, whose parent is the previous head and whose
\* tree is the previous tree with exactly the paths and contents of S laid
\* over it, from one blob per staged path; a flush of the empty set returns 0
\* and makes no repository call.
C1_FlushCommitsExactlyStaged ==
    [][ (FlushRan /\ last'.ok) =>
          IF Keys(staged) # {}
          THEN /\ head'.id = head.id + 1
               /\ head'.parent = head.id
               /\ Keys(head'.tree) = Keys(head.tree) \cup Keys(staged)
               /\ \A p \in Keys(staged) : head'.tree[p] = staged[p]
               /\ \A p \in Keys(head.tree) \ Keys(staged) : head'.tree[p] = head.tree[p]
               /\ last'.ret = Cardinality(Keys(staged))
               /\ flush_staged_writes(staged, head, cached_sha, 0).blobs
                     = Cardinality(Keys(staged))
               /\ staged' = EmptyMap
          ELSE /\ head' = head
               /\ last'.ret = 0
               /\ ~last'.called ]_vars

\* C1 witness: a flush has committed two staged files, one of them replacing
\* a file of the base tree.
C1_Witness ==
    /\ last.op = "flush_writes" /\ last.ok /\ last.ret = 2
    /\ head.id = 1
    /\ head.tree = (<<"a">> :> "Y" @@ <<"b">> :> "X")

\* C2: a flush in which a repository call fails leaves the branch head, and
\* so the files visible on the branch, unchanged, and the staged set holds
\* every path and content it held before.
C2_FlushAllOrNothing ==
    [][ (FlushRan /\ ~last'.ok) =>
          /\ head' = head
          /\ staged' = staged
          /\ Keys(staged') # {} ]_vars

\* C2 witness: the flush_writes tool has failed with two files staged.
C2_Witness ==
    /\ last.op = "flush_writes" /\ ~last.ok /\ last.called
    /\ pc = "blocks"
    /\ Cardinality(Keys(staged)) = 2


Seps == {"/", "\\"}

\* The path has a segment "..", the segments being delimited by "/" or "\".
HasParentSegment(p) ==
    \E i \in 1..(Len(p) - 1) :
        /\ p[i] = "." /\ p[i + 1] = "."
        /\ (i = 1 \/ p[i - 1] \in Seps)
        /\ (i + 1 = Len(p) \/ p[i + 2] \in Seps)

UnsafeForm(p) == p # <<>> /\ (Head(p) \in Seps \/ HasParentSegment(p))

\* C3: for every path that contains a ".." segment or begins with "/" or "\",
\* write_file returns a failure result, stages nothing and makes no
\* repository call.
C3_UnsafePathRejected ==
    [][ \A path \in PathInputs, content \in Contents :
          (/\ UnsafeForm(path)
           /\ dispatch_tool("write_file", [path |-> path, content |-> content], NoEnv))
          => (~last'.ok /\ staged' = staged /\ ~last'.called) ]_vars

\* C4: every key of the staged set, and every path of a tree committed to the
\* working branch, is non-empty, does not begin with "/" or "\" and has no
\* ".." segment.
C4_StagedPathsSafe ==
    \A p \in Keys(staged) \cup Keys(head.tree) :
        /\ p # <<>>
        /\ Head(p) \notin Seps
        /\ ~HasParentSegment(p)

\* C4 witness: write_file has just refused a path while two paths are staged.
C4_Witness ==
    /\ last.op = "write_file" /\ ~last.ok
    /\ Cardinality(Keys(staged)) = 2

RunEnded == pc \in {"done", "failed"}

\* C5: no run ends with files still staged unless the flush of them was
\* performed (and failed): on every way the write phase ends, the staged
\* files are flushed before the run ends.
C5_StagedFlushedOnEveryExit ==
    (RunEnded /\ Keys(staged) # {}) => error = "flush"

\* C6: the write loop begins at most MAX_TURNS iterations; when it ends with
\* writes still staged, they are flushed before the diff check, and the diff
\* check, the pull request and the return see an empty staged set.
C6_TurnCapAndSafetyFlush ==
    [][ /\ turn' <= MAX_TURNS
        /\ (pc = "exit" /\ Keys(staged) # {}) =>
              /\ FlushRan
              /\ pc' \in {"finalize", "failed"}
              /\ pc' = "finalize" =>
                    /\ last'.ok
                    /\ \A p \in Keys(staged) : head'.tree[p] = staged[p]
        /\ pc' \in {"finalize", "pr", "done"} => Keys(staged') = {} ]_vars

\* C6 witness: the eighth turn ended with tool results, and the safety flush
\* has committed what was staged.
C6_Witness ==
    /\ pc = "finalize" /\ turn = MAX_TURNS /\ tool_results
    /\ last.op = "flush_writes" /\ last.ok /\ last.ret >= 1


Threshold(n) == IF n + 1 < 2 THEN 2 ELSE IF n + 1 > 6 THEN 6 ELSE n + 1

DiffFiles == Cardinality(changed_files(head))

\* The step in which _phase3_write compares the branches and decides.
Finalized == pc = "finalize" /\ pc' # "finalize"

ValidDoneText == <<"{", "d", "n", "}">>
InvalidTexts == { <<>>, <<"p">>, <<"{", "d">>, <<"{", "o", "}">> }

\* C7: min_files is max(2, min(6, N + 1)) for N segments; whenever the diff
\* computed after the write loop reports fewer files than that, the run ends
\* with the too-few-files error and no pull request is opened, whatever the
\* final text was.
C7_TooFewFilesAlwaysRaises ==
    [][ /\ \A n \in 0..(MaxSegments + 6) : min_files(n) = Threshold(n)
        /\ (Finalized /\ last'.ret < Threshold(segs)) =>
              /\ pc' = "failed"
              /\ error' = "too_few_files"
              /\ result' = NoResult
        /\ pulls' > 0 => Cardinality(changed_files(head')) >= Threshold(segs) ]_vars

\* C7 witness: two segments, a valid final payload, a diff of two files: the
\* run has failed with the too-few-files error.
C7_Witness ==
    /\ pc = "failed" /\ error = "too_few_files"
    /\ segs = 2 /\ last.op = "compare_changes" /\ last.ok /\ last.ret = 2
    /\ final_text = ValidDoneText

\* C8: whenever the diff reports at least min_files files, _phase3_write
\* returns a payload with status "done"; the default payload when the final
\* text is absent, not JSON, malformed or has another status, the model's
\* payload when it is valid.
C8_FinalizeSucceedsWithDefaults ==
    [][ (Finalized /\ last'.ret >= Threshold(segs)) =>
          /\ pc' = "pr"
          /\ result'.status = "done"
          /\ final_text \in InvalidTexts => result'.source = "default"
          /\ final_text = ValidDoneText => result'.source = "model" ]_vars

\* C8 witness: the final text was malformed JSON, enough files had changed,
\* and the default payload was returned.
C8_Witness ==
    /\ pc = "pr" /\ final_text = <<"{", "d">>
    /\ result.status = "done" /\ result.source = "default"

\* C9: the pass/fail decision and the changed_files_count of the payload are
\* functions of the server-side comparison of the branches (and the segment
\* count) alone: the final text of the model has no part in them.
C9_CountFromServerDiffOnly ==
    [][ /\ Finalized =>
              /\ (pc' = "pr") <=> (last'.ok /\ DiffFiles >= Threshold(segs))
              /\ pc' = "pr" => result'.changed_files_count = DiffFiles
        /\ pc \in {"pr", "done"} => result' = result ]_vars

\* C9 witness: the model's payload reported ModelCount changed files, and the
\* run returned the two files of the server-side diff.
C9_Witness ==
    /\ pc = "done" /\ final_text = ValidDoneText
    /\ result.source = "model" /\ result.changed_files_count = 2

\* C10: at most one pull request is opened, and only when the staged set is
\* empty, a commit has landed on the working branch and the diff has passed
\* the min_files threshold.
C10_PullAfterCommitAndCheck ==
    /\ pulls <= 1
    /\ pulls = 1 =>
          /\ pc \in {"done", "returned"}
          /\ Keys(staged) = {}
          /\ head.id >= 1
          /\ DiffFiles >= Threshold(segs)

\* C10 witness: the pull request is open after two commits.
C10_Witness == pulls = 1 /\ head.id = 2 /\ branch = "created"

(***************************************************************************)
(* The retry wrapper.                                                      *)
(***************************************************************************)
CallEnded == call_state \in {"returned", "raised"}

\* The attempts 1..(k-1) all fail with a retryable error.
RetryablePrefix(k) == \A i \in 1..(k - 1) : outcomes[i] = "retryable"

\* The wrapper run step by step ends as the operator call_claude says.
WrapperAgrees ==
    CallEnded =>
        /\ call_claude(outcomes).raised = (call_state = "raised")
        /\ call_claude(outcomes).attempts = create_calls

\* C11: K-1 retryable failures followed by a success (K <= max attempts):
\* the wrapper returns after exactly K attempts (and never makes more than
\* K); max attempts retryable failures: it makes exactly that many attempts
\* and raises the error of the last one, unmodified.
C11_RetryUntilSuccessOrLastError ==
    /\ \A K \in 1..max_agent_retries :
          (RetryablePrefix(K) /\ outcomes[K] = "ok") =>
              /\ create_calls <= K
              /\ CallEnded => /\ call_state = "returned"
                              /\ create_calls = K
                              /\ sleeps = K - 1
    /\ RetryablePrefix(max_agent_retries + 1) =>
          /\ create_calls <= max_agent_retries
          /\ CallEnded => /\ call_state = "raised"
                          /\ create_calls = max_agent_retries
                          /\ raised_error = [kind |-> "retryable",
                                             at |-> max_agent_retries]
    /\ WrapperAgrees

\* Success on the last allowed attempt, after four retryable failures.
C11_Witness ==
    /\ call_state = "returned"
    /\ create_calls = max_agent_retries
    /\ sleeps = max_agent_retries - 1

\* C12: a non-retryable error at attempt K (after K-1 retryable failures) is
\* raised at once: exactly K calls were made, the error is that attempt's,
\* and no sleep follows it (the sleeps are those of the earlier failures).
C12_FatalErrorPropagatesAtOnce ==
    /\ \A K \in 1..max_agent_retries :
          (RetryablePrefix(K) /\ outcomes[K] = "fatal") =>
              /\ create_calls <= K
              /\ sleeps <= K - 1
              /\ CallEnded => /\ call_state = "raised"
                              /\ create_calls = K
                              /\ sleeps = K - 1
                              /\ raised_error = [kind |-> "fatal", at |-> K]
    /\ call_state = "sleeping" => outcomes[attempt_i + 1] = "retryable"

\* A fatal error at the third attempt, after two retryable failures.
C12_Witness ==
    /\ call_state = "raised"
    /\ raised_error = [kind |-> "fatal", at |-> 3]
    /\ create_calls = 3
    /\ sleeps = 2

(***************************************************************************)
(* The planner.                                                            *)
(***************************************************************************)
PlanCalled == plan_state \in {"called", "returned", "raised"}

\* C13: the planning call goes through the retry wrapper: when its first
\* messages.create fails with a retryable error and the second would
\* succeed, a second call is made and the planner works on its response.
C13_PlannerCallRetried ==
    (PlanCalled /\ outcomes[1] = "retryable" /\ outcomes[2] = "ok") =>
        /\ create_calls >= 2
        /\ response.kind = "text"

\* The planning responses that carry no acceptable plan: no text, no JSON
\* object, invalid JSON, or JSON without a new_files list or without an
\* integration_target.
UnacceptedTexts ==
    { <<>>, <<"p">>, <<"{", "N3", "}">>, <<"{", "T", "}">>,
      <<"{", "N3", "Tn", "}">>, <<"{", "N3", "Te", "}">>,
      <<"{", "Ns", "T", "}">>, <<"{", "N3", "T">>, <<"{", "}">> }

PlanNotAccepted ==
    \/ response.kind = "raised"
    \/ response.kind = "text" /\ response.text \in UnacceptedTexts

\* C14: _phase1_plan never raises; whatever the planning call did, a plan is
\* returned, and it is the fallback plan (a function of the tree and of the
\* experiment's name only) whenever the model's plan was not accepted.
C14_PlannerAlwaysReturnsPlan ==
    /\ plan_state # "raised"
    /\ plan_state = "returned" =>
          /\ plan.source \in {"model", "fallback"}
          /\ PlanNotAccepted => plan = fallback_plan(tree_paths, exp_slug(exp_name))
          /\ plan.source = "model" => ~PlanNotAccepted

\* The planning call raised and the fallback plan was returned.
C14_Witness ==
    /\ plan_state = "returned"
    /\ response.kind = "raised"
    /\ plan.source = "fallback"
    /\ plan.integration_target = "src/App.tsx"

\* C15: the plan returned always has a non-empty new_files list, and the
\* fallback plan has exactly 3 new files and a non-null integration_target.
C15_PlanHasNewFilesAndTarget ==
    plan_state = "returned" =>
        /\ Len(plan.new_files) > 0
        /\ plan.source = "fallback" =>
              /\ Len(plan.new_files) = 3
              /\ plan.integration_target # None

(***************************************************************************)
(* The transcript.                                                         *)
(***************************************************************************)
HasToolUse(m) == m.role = "assistant" /\ tool_use_ids(m.content) # <<>>

\* Every assistant message with tool_use blocks is followed at once by the
\* user message holding one result per invocation, same ids, same order.
InvocationsAnswered(msgs) ==
    \A i \in 1..Len(msgs) :
        HasToolUse(msgs[i]) =>
            /\ i < Len(msgs)
            /\ msgs[i + 1].kind = "tool_result"
            /\ msgs[i + 1].content = tool_use_ids(msgs[i].content)

\* Every user message with tool results comes directly after the assistant
\* message holding the matching invocations.
ResultsPreceded(msgs) ==
    \A i \in 1..Len(msgs) :
        msgs[i].kind = "tool_result" =>
            /\ i > 1
            /\ msgs[i - 1].role = "assistant"
            /\ tool_use_ids(msgs[i - 1].content) = msgs[i].content

\* C16: after any sequence of turns of the write loop, tool invocations and
\* tool results are paired in adjacent messages, ids equal and in order.
C16_WriteTranscriptPaired ==
    agent = "phase3_write" =>
        /\ InvocationsAnswered(messages)
        /\ ResultsPreceded(messages)

\* The write loop made two tool calls in its second response and was then nudged.
C16_Witness ==
    /\ agent = "phase3_write"
    /\ agent_turn = 3
    /\ Len(messages) = 6
    /\ Len(messages[5].content) = 2
    /\ messages[6] = Nudge

\* C17: after every trim of the tool-agent loop no user message with tool
\* results is left without the assistant message of its invocations directly
\* before it (the trim drops whole (assistant, user) pairs only).
C17_TrimKeepsPairs ==
    agent = "run_claude_tool_agent" => ResultsPreceded(messages)

\* C18: in the tool-agent loop the first message is always the task prompt,
\* and no request is sent with more than max_history_messages messages.
C18_FirstPromptKeptAndHistoryBounded ==
    agent = "run_claude_tool_agent" =>
        /\ messages[1] = TaskPrompt
        /\ agent_state = "looping" => Len(messages) <= max_history_messages

\* The loop goes on after a trim, with a full history.
C18_Witness ==
    /\ agent = "run_claude_tool_agent"
    /\ agent_state = "looping"
    /\ agent_turn = 10
    /\ Len(messages) = max_history_messages

(***************************************************************************)
(* Tool failures and the caller of create_experiment_pr.                   *)
(***************************************************************************)
\* The step executes a tool_use block of the response.
ToolStep == pc = "blocks" /\ nblocks' = nblocks + 1 /\ last'.op # "none"

C20_StatusFollowsOutcome ==
    /\ (pc = "returned" /\ error # None) => status = "failed"
    /\ status = "pr_created" =>
          /\ pc = "returned"
          /\ pr_url # None
          /\ pulls = 1
          /\ error = None
    /\ pr_url # None => status = "pr_created"

\* The run failed for too few changed files and the experiment is marked failed.
C20_Witness ==
    /\ pc = "returned"
    /\ error = "too_few_files"
    /\ status = "failed"
    /\ pr_url = None

(***************************************************************************)
(* The working branch and its single writer.                               *)
(***************************************************************************)
\* The step is a flush of a non-empty staged set that succeeded.
FlushCommitted == FlushRan /\ last'.ok /\ Keys(staged) # {}

\* C21: once the working branch exists its head changes only in a successful
\* flush of a non-empty staged set, by exactly one commit each time (so the
\* commits added are as many as those flushes); write_file, compare_changes
\* and the reading phases leave the head as it is.
C21_FlushIsTheOnlyWriter ==
    [][ branch = "created" =>
          /\ head' # head => FlushCommitted
          /\ FlushCommitted => (head'.id = head.id + 1 /\ head'.parent = head.id)
          /\ last'.op \in {"write_file", "compare_changes"} => head' = head
          /\ pc \in {"plan", "phase3"} => head' = head ]_vars

\* compare_changes was called after one commit, with a file staged again.
C21_Witness ==
    /\ pc = "blocks"
    /\ last.op = "compare_changes"
    /\ head.id = 1
    /\ Keys(staged) # {}

(***************************************************************************)
(* The tree cache.                                                         *)
(***************************************************************************)
\* C22: _get_tree(branch) returns the file list of the commit that is the
\* branch's head at the time of the call; the cached list is returned only
\* when the stored checksum is that head's; after a successful flush of a
\* non-empty staged set the cache holds no entry.
C22_GetTreeReturnsHeadTree ==
    [][ /\ last'.op = "get_tree" =>
              /\ got_tree'.paths = DOMAIN branch_commit(got_tree'.branch, head).tree
              /\ ~last'.called =>
                    /\ cached_tree.valid
                    /\ cached_sha = branch_commit(got_tree'.branch, head).id
        /\ FlushCommitted =>
              /\ ~cached_tree'.valid
              /\ cached_sha' = NoSha ]_vars

\* The list of the default branch was fetched again although the cache held
\* the (different) list of the working branch.
C22_Witness ==
    /\ last.op = "get_tree"
    /\ last.called
    /\ got_tree = [branch |-> "default", paths |-> {<<"a">>}]
    /\ head.id = 1
    /\ head.tree = (<<"a">> :> "X" @@ <<"b">> :> "X")
    /\ cached_sha = 0

\* The latest step was a flush that committed (it returned a positive count).
JustCommitted == last.op = "flush_writes" /\ last.ok /\ last.ret > 0

\* C23: a successful flush of n staged paths returns n, adds one commit made
\* of n blobs and empties the staged set; a flush that follows it at once
\* returns 0, adds no commit and makes no repository call.
C23_SecondFlushIsNoOp ==
    [][ /\ FlushCommitted =>
              /\ last'.ret = Cardinality(Keys(staged))
              /\ flush_staged_writes(staged, head, cached_sha, 0).blobs
                    = Cardinality(Keys(staged))
              /\ head'.id = head.id + 1
              /\ staged' = EmptyMap
        /\ (JustCommitted /\ FlushRan) =>
              /\ last'.ok
              /\ last'.ret = 0
              /\ ~last'.called
              /\ head' = head
              /\ staged' = EmptyMap ]_vars

\* Two files were flushed as one commit; the staged set is empty again.
C23_Witness ==
    /\ JustCommitted
    /\ last.ret = 2
    /\ head.id = 1
    /\ head.tree = (<<"a">> :> "Y" @@ <<"b">> :> "Y")
    /\ staged = EmptyMap

(***************************************************************************)
(* Concurrent runs.                                                        *)
(***************************************************************************)
OnBranch(r) == run[r].pc \in {"branch", "planned", "phase3", "done"}

\* C24: a step of one run never changes the other run's staged set or
\* cache; a staged set holds only what its own run wrote, and every file of
\* a branch is a file of the base tree or one staged by the branch's run.
C24_RunsShareNoState ==
    [][ /\ \A r \in Runs :
              r # actor' =>
                  /\ (StagedOf(r))' = StagedOf(r)
                  /\ svc'[r].cached_sha = svc[r].cached_sha
        /\ \A r \in Runs : \A p \in DOMAIN (StagedOf(r))' :
              (StagedOf(r))'[p] = ContentOf(r)
        /\ \A n \in DOMAIN refs' : \A p \in DOMAIN refs'[n].tree :
              \/ refs'[n].tree[p] = ContentOf(refs'[n].owner)
              \/ (p \in DOMAIN BaseTree /\ refs'[n].tree[p] = BaseTree[p]) ]_vars

\* Both runs have committed one file and staged another, each on its branch.
C24_Witness ==
    /\ run[1].pc = "phase3" /\ run[2].pc = "phase3"
    /\ StagedOf(1) = (<<"a">> :> "r1")
    /\ StagedOf(2) = (<<"b">> :> "r2")
    /\ refs[run[1].name].tree = (<<"a">> :> "X" @@ <<"b">> :> "r1")
    /\ refs[run[2].name].tree = (<<"a">> :> "r2")

\* C25: two runs never work on the same branch: a run is on the branch it
\* created itself, only the creator commits to a branch, and a run whose
\* branch name exists already fails with nothing staged and nothing committed.
C25_OneRunPerBranch ==
    /\ \A r1, r2 \in Runs :
          (r1 # r2 /\ OnBranch(r1) /\ OnBranch(r2)) => run[r1].name # run[r2].name
    /\ \A r \in Runs :
          OnBranch(r) => (run[r].name \in DOMAIN refs /\ refs[run[r].name].owner = r)
    /\ \A n \in DOMAIN refs : refs[n].committers \subseteq {refs[n].owner}
    /\ \A r \in Runs :
          run[r].pc = "failed" =>
              /\ StagedOf(r) = EmptyMap
              /\ \A n \in DOMAIN refs : r \notin refs[n].committers /\ refs[n].owner # r

\* Both runs computed the same branch name: the second found the reference
\* existing and failed, the first has committed.
C25_Witness ==
    /\ run[1].name = run[2].name
    /\ run[2].pc = "failed"
    /\ run[1].pc = "done"
    /\ refs[run[1].name].committers = {1}

\* The write loop is left: by a break, or by the end of the last iteration.
LoopLeft == pc = "blocks" /\ pc' = "exit"

\* C26: the write loop is left only in DONE, by a response without tool
\* invocations whose text parses as a JSON payload with status "done", or in
\* EXHAUSTED, at the end of the last of the MAX_TURNS iterations; prose that is
\* not a valid payload, or an empty response with a stop reason other than
\* end_turn, does not end it early.
C26_LoopEndsDoneOrExhausted ==
    [][ LoopLeft =>
          \/ turn = MAX_TURNS
          \/ /\ ~tool_results
             /\ extract_json_from_response(final_text').valid
             /\ extract_json_from_response(final_text').status = "done" ]_vars

\* How many times the nudge was appended to the transcript.
Nudges == Cardinality({i \in DOMAIN messages : messages[i] = Nudge})

\* The iterations of the write loop whose response may come without a tool
\* invocation: all but those whose request forces one.
FreeTurns == Cardinality({t \in 0..(MAX_TURNS - 1) : tool_choice(t) # "any"})

\* C27: in one run of the write loop the nudge fires at most a fixed number
\* of times given by a limit of its own, smaller than what the turn budget
\* alone allows, after which the loop is abandoned: the nudge never fires in
\* every iteration that can come without a tool invocation.
C27_NudgeHasItsOwnLimit ==
    agent = "phase3_write" =>
        \E limit \in 1..(FreeTurns - 1) : Nudges <= limit

\* The step that handles a response without tool invocation and without
\* non-empty text whose stop reason is end_turn.
NudgeCase ==
    /\ pc = "blocks" /\ pc' # "blocks"
    /\ ~tool_results
    /\ final_text' = <<>>
    /\ stop' = "end_turn"

\* The flush of that step raised (the exception leaves _phase3_write).
NudgeFlushRaised == last'.op = "flush_writes" /\ ~last'.ok

C29_FirstTurnForcesATool ==
    [][ /\ (pc = "call" /\ pc' = "blocks") =>
              tool_choice(turn) = (IF turn' = 1 THEN "any" ELSE None)
        /\ (pc = "blocks" /\ turn = 1) =>
              /\ text_chunks' = <<>>
              /\ pc' # "blocks" =>
                    /\ tool_results
                    /\ appended'.kind = "tool_results"
                    /\ pc' = "call"
                    /\ final_text' = <<>> ]_vars

\* The second response was prose only and ended the loop.
C29_Witness ==
    /\ pc = "exit"
    /\ turn = 2
    /\ ~tool_results
    /\ final_text = <<"p">>

\* A tool invocation that is not the first block of its response, with the
\* result of the block before it still in `last`.
AfterInSameResponse(op) == pc = "blocks" /\ nblocks > 0 /\ last.op = op /\ last.ok

\* C30: the tool invocations of a response act one after the other on the
\* state the earlier ones left.  A flush_writes right after a write_file of
\* the same response commits what that write staged (with all else staged)
\* and empties the staged set; a write_file right after a flush_writes of
\* the same response is staged on top of what the flush left, is not
\* committed by it, and stays staged until a later flush.
C30_BlocksRunInOrder ==
    [][ /\ (AfterInSameResponse("write_file") /\ last'.op = "flush_writes" /\ last'.ok) =>
              /\ Keys(staged) # {}
              /\ last'.ret = Cardinality(Keys(staged))
              /\ head'.id = head.id + 1
              /\ \A p \in Keys(staged) : head'.tree[p] = staged[p]
              /\ Keys(staged') = {}
        /\ (AfterInSameResponse("flush_writes") /\ last'.op = "write_file" /\ last'.ok) =>
              /\ head' = head
              /\ Keys(staged') # {}
              /\ last'.ret = Cardinality(Keys(staged'))
              /\ last.ret > 0 => Cardinality(Keys(staged')) = 1
        /\ (branch = "created" /\ pc # "phase3" /\ Keys(staged) # {}) =>
              \/ Keys(staged) \subseteq Keys(staged')
              \/ /\ FlushCommitted
                 /\ \A p \in Keys(staged) : head'.tree[p] = staged[p] ]_vars

\* One response wrote "b" and then flushed: "b" is committed, nothing is staged.
C30_Witness ==
    /\ pc = "blocks"
    /\ turn = 1
    /\ nblocks = 2
    /\ last.op = "flush_writes" /\ last.ok /\ last.ret = 1
    /\ <<"b">> \in Keys(head.tree)
    /\ Keys(staged) = {}

WritePhaseEnded == agent_state \in {"returned", "raised"}

\* C31: the write phase makes at most MAX_TURNS * max_agent_retries
\* completion requests, whatever the model answers, and always comes to its
\* end: it returns a payload or raises.
C31_WritePhaseTerminates ==
    /\ [](create_calls <= MAX_TURNS * max_agent_retries)
    /\ <>WritePhaseEnded

\* Every one of the 8 iterations needed all 5 attempts, and the phase returned.
C31_Witness ==
    /\ agent = "write_phase"
    /\ create_calls = MAX_TURNS * max_agent_retries
    /\ agent_state = "returned"

\* The paths the plan names that the tree holds.
Eligible ==
    ((Range(read_plan.files_to_read) \cup {read_plan.integration_target})
        \cap read_tree) \ {None, ""}

\* C32: the context reader requests only paths of the plan's files_to_read
\* or its integration target that are in the cached tree, none twice and at
\* most 8; a path whose read fails (missing, a directory, not UTF-8, an API
\* error) does not keep the later paths from being requested, and the reader
\* always returns: it requests min(8, eligible paths) paths.
C32_ReaderRequestsPlannedPaths ==
    /\ Range(requested) \subseteq Eligible
    /\ Cardinality(Range(requested)) = Len(requested)
    /\ Len(requested) <= ReadCap
    /\ contents \subseteq Range(requested)
    /\ read_state # "aborted"
    /\ read_state = "returned" =>
          Len(requested) = Min(ReadCap, Cardinality(Eligible))

\* Ten paths were eligible, eight were requested, the first reads failed and
\* a later one succeeded.
C32_Witness ==
    /\ read_state = "returned"
    /\ Cardinality(Eligible) = 10
    /\ Len(requested) = ReadCap
    /\ "p1" \notin contents
    /\ "p8" \in contents

\* C33: the content of a tool-result block has at most max_tool_result_chars
\* characters: a result that serializes to more is replaced by a compacted
\* one marked truncated, whose own serialization is within the ceiling.
C33_BlockWithinCeiling ==
    block_content.appended =>
        /\ block_content.len <= max_tool_result_chars
        /\ block_content.truncated <=> serialized_len(tool_out) > max_tool_result_chars

\* The hash of the segment with this id: "test" and its rank among the ids.
HashOfId(id) ==
    <<"test">> \o Str(Cardinality({s \in {exp_segments[k].id : k \in DOMAIN exp_segments} :
                                    s <= id}))

\* C34: the hash mapping of the write prompt has one line per segment of
\* the experiment, in their order, with the segment's name and its own
\* preview hash, the one stored for its id; with two segments the hashes
\* test1 and test2 and both names are there.
C34_HashMappingNamesEverySegment ==
    hash_mapping.built =>
        /\ Len(hash_mapping.lines) = Len(exp_segments)
        /\ \A k \in DOMAIN exp_segments :
              /\ hash_mapping.lines[k].name = exp_segments[k].name
              /\ hash_mapping.lines[k].id = Str(exp_segments[k].id)
              /\ hash_mapping.lines[k].preview_hash = HashOfId(exp_segments[k].id)
              /\ hash_mapping.lines[k].url_hash = HashOfId(exp_segments[k].id)
              /\ hash_mapping.lines[k].preview_hash =
                    stored_hashes.map[Str(exp_segments[k].id)]
        /\ Len(exp_segments) = 2 =>
              {hash_mapping.lines[k].preview_hash : k \in 1..2}
                  = {<<"test", "1">>, <<"test", "2">>}

\* Two segments, the one with the larger id first: the first line carries
\* test2 and the second test1.
C34_Witness ==
    /\ hash_mapping.built
    /\ Len(exp_segments) = 2
    /\ exp_segments[1].id = 12 /\ exp_segments[1].name = "variant"
    /\ exp_segments[2].id = 7 /\ exp_segments[2].name = "control"
    /\ hash_mapping.lines[1].preview_hash = <<"test", "2">>
    /\ hash_mapping.lines[2].preview_hash = <<"test", "1">>

\* C35: in the transcript of the write loop the roles alternate, beginning
\* with the user turn of the task prompt: no two user turns (and no two
\* assistant turns) follow each other, whatever the responses hold.
C35_WriteRolesAlternate ==
    agent = "phase3_write" =>
        /\ messages[1] = TaskPrompt
        /\ \A i \in 1..(Len(messages) - 1) : messages[i].role # messages[i + 1].role

\* C36: the too-few-files error is raised only when the working branch
\* differs from the base branch in fewer than min_files files; a final
\* comparison call that fails does not make the run report 0 changed files.
C36_TooFewFilesIsReal ==
    [][ (pc = "finalize" /\ pc' = "failed" /\ error' = "too_few_files") =>
            Cardinality(changed_files(head)) < min_files(segs) ]_vars

\* C37: a status committed by activate_experiment or finish_experiment
\* while the implementation thread runs is not overwritten by that thread:
\* no step of the implementation thread changes a status that is "active"
\* or "finishing".
C37_RouteStatusNotOverwritten ==
    [][ (db_status \in {"active", "finishing"} /\ db_status' # db_status) =>
            race_actor' # "impl" ]_vars

\* The last element of a non-empty sequence.
LastOf(seq) == seq[Len(seq)]

\* C38: the staged set holds one entry for every path written since the
\* last flush, with the content of the last write_file to it; the
\* total_staged a write_file reports is the number of distinct staged paths;
\* the next flush makes one blob per staged path and commits, for each, the
\* last content written.
C38_LastWriteWins ==
    [][ /\ Keys(staged') = Keys(written')
        /\ \A p \in Keys(staged') : staged'[p] = LastOf(written'[p])
        /\ (last'.op = "write_file" /\ last'.ok) =>
              last'.ret = Cardinality(Keys(written'))
        /\ FlushCommitted =>
              /\ flush_staged_writes(staged, head, cached_sha, 0).blobs
                    = Cardinality(Keys(written))
              /\ \A p \in Keys(written) : head'.tree[p] = LastOf(written[p]) ]_vars

\* "a" was written twice, first X then Y, and "b" once; the flush that
\* followed took the two paths and committed Y for "a".
C38_Witness ==
    /\ pc = "stage"
    /\ last.op = "flush_writes" /\ last.ok /\ last.ret = 2
    /\ flushed = (<<"a">> :> <<"X", "Y">>) @@ (<<"b">> :> <<"X">>)
    /\ head.tree[<<"a">>] = "Y"
    /\ written = EmptyMap

====
